---- MODULE Spec2Model ----
(***************************************************************************)
(* A model of the vshot-server session orchestrator.                       *)
(*                                                                         *)
(* Fixed-pair mode: RoomManager (grace-period deletion), SignalingServer,  *)
(* the photo router with batch merge and the video segment upload route.   *)
(* Rotating mode: V3RoomManager, V3SignalingServer and the V3 photo        *)
(* router with its merge-in-flight guard.                                  *)
(*                                                                         *)
(* The two modes are served by separate manager and server objects that    *)
(* share nothing; the variable `mode` selects which pair a behaviour       *)
(* exercises.                                                              *)
(***************************************************************************)
EXTENDS Integers, Sequences, FiniteSets, TLC

\* ------------------------------------------------------------------ bounds

\* Photo numbers that clients use in capture and upload messages.
MaxPhoto == 1
\* Longest capturedPhotos array explored (addCapturedPhoto never dedupes).
MaxCaptured == 2
\* Deletion timers that may be pending at once.
MaxTimers == 2
\* A counter that has reached this value stops counting.
CountCap == 2
\* Upload requests that may be suspended in a photo router.
MaxUploads == 2
\* Sessions that joinGuest creates in one behaviour.
MaxSessions == 2
\* startCountdown calls that may be asleep at once.
MaxCountdowns == 2
\* Highest place in the insertion order of V3SignalingServer.clients when a
\* connection sends 'join' repeatedly.
MaxJoins == 3
\* Small canvas sizes tried beside the video resolution.
MaxCanvas == 6
\* Slot ratios tried beside the layout definitions: k / RatioDen.
RatioDen == 8

\* ------------------------------------------------------- program constants

\* VideoComposer: `const VIDEO_WIDTH = 720; const VIDEO_HEIGHT = 1080;`
VIDEO_WIDTH == 720
VIDEO_HEIGHT == 1080

\* video-postprocess.ts: `uploadedSegments.length === 8`
SegmentsRequired == 8
\* part_008: `room.frameLayoutSettings?.totalPhotos || 8`
DefaultPhotoCount == 8
\* part_003 startCountdown: `for (let count = 5; count > 0; count--)`
CountdownFrom == 5

\* ------------------------------------------------------------ value spaces

Users == {"u1", "u2", "u3"}
Conns == {"c1", "c2", "c3"}
RoomIds == {"r1", "r2"}
Roles == {"host", "guest"}
NoUser == "none"
NoRoomId == ""
PhotoNumbers == 1..MaxPhoto
SegmentNumbers == 1..SegmentsRequired
NoTimer == 0
TimerIds == 1..MaxTimers
NoSettings == 0

VARIABLES
    mode,        \* "fp": SignalingServer with RoomManager; "v3" | "v3r2":
                 \* V3SignalingServer with the photo router of photo-v3.ts | groups.ts
                 \* (in SpecBoth the value also names the client population)
    connState,   \* WebSocket readyState per connection: "open" | "closing" | "closed"
    sent,        \* the messages the last step wrote to sockets
    joined,      \* history: the connections that have sent their 'join'
    rooms,       \* RoomManager.rooms
    userToRoom,  \* RoomManager.userToRoom
    timers,      \* pending setTimeout callbacks of RoomManager.removeUser
    clients,     \* SignalingServer.clients
    uploads,     \* suspended POST handlers of the fixed-pair routers (photo upload,
                 \* composition of uploaded segments)
    expired,     \* history: ids of the rooms a deletion timer has deleted
    v3rooms,         \* V3RoomManager.rooms
    v3clients,       \* V3SignalingServer.clients
    nextSessionId,   \* the next value uuidv4 yields in joinGuest
    rejected,        \* history: connections whose join was answered with an error
    superseded,      \* history: <<connection, user>> for each connection that a
                     \* reconnecting join of its user has closed
    countdowns,      \* the startCountdown calls that are asleep
    v3uploads,       \* suspended POST /upload handlers of the V3 photo router
    mergeInProgress, \* the V3 photo router's mergeInProgress set
    merges,          \* dispatched merge callbacks: queued by setImmediate or awaiting
    photoBuffers,    \* the R2 variant's photoBuffers map, as <<roomId, role>> pairs
    canvas,          \* VideoComposer: the target canvas size [width, height]
    ratios,          \* the FrameSlotRatio list given to resolvePositions
    resolved         \* the FramePosition list it returned (<<>> before the call)

fpVars == <<rooms, userToRoom, timers, clients, uploads, expired>>
v3Vars == <<v3rooms, v3clients, nextSessionId, rejected, superseded, countdowns,
            v3uploads, mergeInProgress, merges, photoBuffers>>
layoutVars == <<canvas, ratios, resolved>>
vars == <<mode, connState, sent, joined, fpVars, v3Vars, layoutVars>>

\* ----------------------------------------------------------------- helpers

Put(f, k, v) == [x \in (DOMAIN f) \cup {k} |-> IF x = k THEN v ELSE f[x]]
Del(f, k) == [x \in (DOMAIN f) \ {k} |-> f[x]]
Empty == [x \in {} |-> 0]
Bump(n) == IF n < CountCap THEN n + 1 ELSE n
Min(S) == CHOOSE x \in S : \A y \in S : x <= y
Max(S) == CHOOSE x \in S : \A y \in S : x >= y

\* A message written to a socket.  ws.send on a socket that is not OPEN
\* delivers nothing.
Msg(conn, type, about) == [to |-> conn, type |-> type, about |-> about]
Deliverable(cs, msgs) == {m \in msgs : cs[m.to] = "open"}

\* =========================================================================
\* Fixed-pair mode: RoomManager (grace-period version)
\* =========================================================================

NewRoom(hostId) ==
    [hostId |-> hostId, guestId |-> NoUser, capturedPhotos |-> <<>>,
     selectedPhotos |-> [host |-> <<>>, guest |-> <<>>],
     sessionSettings |-> NoSettings, frameLayoutSettings |-> NoSettings,
     deletionTimerId |-> NoTimer, uploadedSegments |-> {},
     \* history, not fields of Room:
     createdBy |-> hostId,       \* the hostId createRoom was given
     graceNotice |-> "none",     \* whether the host's last "leave" or "close" sent
                                 \* peer-left to the guest who is still attached
     mergedEvents |-> 0,         \* 'photos-merged' broadcasts so far
     allSegmentsEvents |-> 0,    \* 'all-segments-uploaded' broadcasts so far
     segmentUploads |-> 0]       \* accepted segment uploads so far

\* The manager's state as one value, so that its methods are operators.
RM == [rooms |-> rooms, userToRoom |-> userToRoom, timers |-> timers]

\* generateRoomId without `if (this.rooms.has(result))`: any id.
generateRoomId_Any(rm) == RoomIds

\* generateRoomId: a random id, drawn again while it names a live room.
generateRoomId(rm) == RoomIds \ DOMAIN rm.rooms

createRoom(rm, roomId, hostId) ==
    [rm EXCEPT !.rooms = Put(rm.rooms, roomId, NewRoom(hostId)),
               !.userToRoom = Put(rm.userToRoom, hostId, roomId)]

\* clearTimeout(room.deletionTimerId)
clearTimeout(tm, id) == {t \in tm : t.id # id}

\* rejoinRoomAsHost without its clearTimeout: the callback stays scheduled.
rejoinRoomAsHost_KeepsTimer(rm, roomId, hostId) ==
    IF roomId \notin DOMAIN rm.rooms THEN [ok |-> FALSE, rm |-> rm]
    ELSE IF rm.rooms[roomId].hostId # hostId THEN [ok |-> FALSE, rm |-> rm]
    ELSE [ok |-> TRUE,
          rm |-> [rm EXCEPT !.rooms[roomId].deletionTimerId = NoTimer,
                            !.userToRoom = Put(rm.userToRoom, hostId, roomId)]]

\* rejoinRoomAsHost without the hostId comparison: the caller takes the room.
rejoinRoomAsHost_AnyHost(rm, roomId, hostId) ==
    IF roomId \notin DOMAIN rm.rooms THEN [ok |-> FALSE, rm |-> rm]
    ELSE [ok |-> TRUE,
          rm |-> [rooms |-> [rm.rooms EXCEPT ![roomId].deletionTimerId = NoTimer,
                                             ![roomId].hostId = hostId],
                  userToRoom |-> Put(rm.userToRoom, hostId, roomId),
                  timers |-> clearTimeout(rm.timers, rm.rooms[roomId].deletionTimerId)]]

rejoinRoomAsHost(rm, roomId, hostId) ==
    IF roomId \notin DOMAIN rm.rooms THEN [ok |-> FALSE, rm |-> rm]
    ELSE IF rm.rooms[roomId].hostId # hostId THEN [ok |-> FALSE, rm |-> rm]
    ELSE [ok |-> TRUE,
          rm |-> [rooms |-> [rm.rooms EXCEPT ![roomId].deletionTimerId = NoTimer],
                  userToRoom |-> Put(rm.userToRoom, hostId, roomId),
                  timers |-> clearTimeout(rm.timers, rm.rooms[roomId].deletionTimerId)]]

joinRoom(rm, roomId, guestId) ==
    IF roomId \notin DOMAIN rm.rooms THEN [ok |-> FALSE, rm |-> rm]
    ELSE IF rm.rooms[roomId].guestId # NoUser /\ rm.rooms[roomId].guestId # guestId
         THEN [ok |-> FALSE, rm |-> rm]
    ELSE [ok |-> TRUE,
          rm |-> [rm EXCEPT !.rooms[roomId].guestId = guestId,
                            !.userToRoom = Put(rm.userToRoom, guestId, roomId)]]

\* setTimeout returns a handle distinct from every pending one (NoTimer when
\* the model has run out of handles).
FreshTimer(tm) ==
    LET free == TimerIds \ {t.id : t \in tm}
    IN IF free = {} THEN NoTimer ELSE Min(free)

\* removeUser: returns the room id the user was mapped to, or NoRoomId.
removeUser(rm, userId) ==
    IF userId \notin DOMAIN rm.userToRoom THEN [roomId |-> NoRoomId, rm |-> rm]
    ELSE LET roomId == rm.userToRoom[userId] IN
         IF roomId \notin DOMAIN rm.rooms THEN [roomId |-> NoRoomId, rm |-> rm]
         ELSE LET room == rm.rooms[roomId] IN
              IF room.hostId = userId THEN
                  LET cleared == clearTimeout(rm.timers, room.deletionTimerId)
                      id == FreshTimer(cleared)
                  IN [roomId |-> roomId,
                      rm |-> [rooms |-> [rm.rooms EXCEPT ![roomId].deletionTimerId = id],
                              userToRoom |-> Del(rm.userToRoom, userId),
                              timers |-> cleared \cup {[id |-> id, roomId |-> roomId]}]]
              ELSE IF room.guestId = userId THEN
                  [roomId |-> roomId,
                   rm |-> [rm EXCEPT !.rooms[roomId].guestId = NoUser,
                                     !.rooms[roomId].graceNotice = "none",
                                     !.userToRoom = Del(rm.userToRoom, userId)]]
              ELSE [roomId |-> roomId, rm |-> rm]

\* The deletion callback without `userToRoom.delete(room.guestId)`.
deletionTimeout_KeepsGuest(rm, t) ==
    [rooms |-> Del(rm.rooms, t.roomId), userToRoom |-> rm.userToRoom,
     timers |-> rm.timers \ {t}]

\* The callback removeUser schedules: it runs GRACE_PERIOD_MS after the host left.
deletionTimeout(rm, t) ==
    IF t.roomId \notin DOMAIN rm.rooms THEN [rm EXCEPT !.timers = rm.timers \ {t}]
    ELSE LET room == rm.rooms[t.roomId] IN
         [rooms |-> Del(rm.rooms, t.roomId),
          userToRoom |-> IF room.guestId # NoUser THEN Del(rm.userToRoom, room.guestId)
                         ELSE rm.userToRoom,
          timers |-> rm.timers \ {t}]

NewPhoto(photoNumber) ==
    [photoNumber |-> photoNumber, hostImageUrl |-> FALSE, guestImageUrl |-> FALSE,
     mergedImageUrl |-> FALSE, merges |-> 0]

addCapturedPhoto(rs, roomId, photoNumber) ==
    IF roomId \notin DOMAIN rs THEN rs
    ELSE [rs EXCEPT ![roomId].capturedPhotos = Append(@, NewPhoto(photoNumber))]

\* Array.prototype.find: the first element with that photoNumber, 0 when none.
FindPhoto(photos, photoNumber) ==
    LET hits == {i \in 1..Len(photos) : photos[i].photoNumber = photoNumber}
    IN IF hits = {} THEN 0 ELSE Min(hits)

updatePhotoUrl(rs, roomId, photoNumber, role) ==
    IF roomId \notin DOMAIN rs THEN rs
    ELSE LET i == FindPhoto(rs[roomId].capturedPhotos, photoNumber) IN
         IF i = 0 THEN rs
         ELSE IF role = "host"
              THEN [rs EXCEPT ![roomId].capturedPhotos[i].hostImageUrl = TRUE]
              ELSE [rs EXCEPT ![roomId].capturedPhotos[i].guestImageUrl = TRUE]

updateMergedPhotoUrl(rs, roomId, photoNumber) ==
    IF roomId \notin DOMAIN rs THEN rs
    ELSE LET i == FindPhoto(rs[roomId].capturedPhotos, photoNumber) IN
         IF i = 0 THEN rs
         ELSE [rs EXCEPT ![roomId].capturedPhotos[i].mergedImageUrl = TRUE]

updateSelectedPhotos(rs, roomId, role, selectedIndices) ==
    IF roomId \notin DOMAIN rs THEN rs
    ELSE [rs EXCEPT ![roomId].selectedPhotos[role] = selectedIndices]

updateSessionSettings(rs, roomId, settings) ==
    IF roomId \notin DOMAIN rs THEN rs
    ELSE [rs EXCEPT ![roomId].sessionSettings = settings]

updateFrameLayoutSettings(rs, roomId, settings) ==
    IF roomId \notin DOMAIN rs THEN rs
    ELSE [rs EXCEPT ![roomId].frameLayoutSettings = settings]

\* =========================================================================
\* Fixed-pair mode: SignalingServer
\* =========================================================================

\* The server's state as one value: the room manager and the client registry.
SS == [rm |-> RM, clients |-> clients]

NewClient(ws, roomId, role) == [ws |-> ws, roomId |-> roomId, role |-> role]

\* broadcastToRoom: the sockets of the room's hostId and guestId.
broadcastToRoom(ss, roomId, type, about) ==
    IF roomId \notin DOMAIN ss.rm.rooms THEN {}
    ELSE LET room == ss.rm.rooms[roomId]
             userIds == {room.hostId, room.guestId} \ {NoUser}
         IN {Msg(ss.clients[u].ws, type, about) : u \in userIds \cap DOMAIN ss.clients}

\* handleJoin, host branch after the room id is settled.
HostJoined(ss, ws, userId, roomId) ==
    [ss |-> [ss EXCEPT !.clients = Put(ss.clients, userId, NewClient(ws, roomId, "host"))],
     msgs |-> {Msg(ws, "joined", userId)},
     roomId |-> roomId, ok |-> TRUE]

\* handleJoin; newId is the id generateRoomId returns should createRoom run.
handleJoin(ss, ws, roomId, userId, role, newId) ==
    IF userId \in DOMAIN ss.clients THEN
        [ss |-> ss, msgs |-> {Msg(ws, "error", userId)}, roomId |-> roomId, ok |-> FALSE]
    ELSE IF role = "host" THEN
        LET rj == IF roomId # NoRoomId THEN rejoinRoomAsHost(ss.rm, roomId, userId)
                  ELSE [ok |-> FALSE, rm |-> ss.rm]
        IN IF rj.ok THEN HostJoined([ss EXCEPT !.rm = rj.rm], ws, userId, roomId)
           ELSE HostJoined([ss EXCEPT !.rm = createRoom(ss.rm, newId, userId)],
                           ws, userId, newId)
    ELSE
        LET j == joinRoom(ss.rm, roomId, userId) IN
        IF j.ok THEN
            LET cl == Put(ss.clients, userId, NewClient(ws, roomId, "guest"))
                hostId == j.rm.rooms[roomId].hostId
            IN [ss |-> [rm |-> j.rm, clients |-> cl],
                msgs |-> {Msg(ws, "joined", userId)} \cup
                         (IF hostId \in DOMAIN cl
                          THEN {Msg(cl[hostId].ws, "peer-joined", userId)} ELSE {}),
                roomId |-> roomId, ok |-> TRUE]
        ELSE [ss |-> ss, msgs |-> {Msg(ws, "error", userId)}, roomId |-> roomId,
              ok |-> FALSE]

\* handleLeave.  graceNotice records whether this leave, made by the host
\* with a 'leave' message or by the close of its socket, wrote peer-left to
\* the guest's open socket.
handleLeave(ss, cs, userId) ==
    LET rem == removeUser(ss.rm, userId)
        rs == rem.rm.rooms
        room == rs[rem.roomId]
        otherUserId == IF room.hostId = userId THEN room.guestId ELSE room.hostId
        msgs == IF rem.roomId # NoRoomId /\ rem.roomId \in DOMAIN rs
                   /\ otherUserId # NoUser /\ otherUserId \in DOMAIN ss.clients
                THEN {Msg(ss.clients[otherUserId].ws, "peer-left", userId)}
                ELSE {}
        noted == IF rem.roomId # NoRoomId /\ rem.roomId \in DOMAIN rs
                    /\ room.hostId = userId
                 THEN [rem.rm EXCEPT !.rooms[rem.roomId].graceNotice =
                          IF Deliverable(cs, msgs) = {} THEN "none"
                          ELSE IF userId \in DOMAIN ss.clients
                                  /\ cs[ss.clients[userId].ws] = "closed"
                               THEN "close" ELSE "leave"]
                 ELSE rem.rm
    IN [ss |-> [rm |-> noted, clients |-> Del(ss.clients, userId)],
        msgs |-> msgs, roomId |-> rem.roomId]

\* The model has not run out of timer handles.
HandlesLeft(ss) == \A t \in ss.rm.timers : t.id # NoTimer

Install(ss) ==
    /\ rooms' = ss.rm.rooms
    /\ userToRoom' = ss.rm.userToRoom
    /\ timers' = ss.rm.timers
    /\ clients' = ss.clients

\* A 'join' message arrives on connection c.
FPJoin(c, roomId, userId, role) ==
    /\ connState[c] = "open"
    /\ \E newId \in generateRoomId(RM) \cup {NoRoomId} :
         \* createRoom needs an unused id; the other paths do not look at newId
         LET needsId == userId \notin DOMAIN clients /\ role = "host"
                        /\ ~(roomId # NoRoomId /\ rejoinRoomAsHost(RM, roomId, userId).ok)
             r == handleJoin(SS, c, roomId, userId, role, newId)
         IN /\ (newId # NoRoomId) = needsId
            /\ Install(r.ss)
            /\ sent' = Deliverable(connState, r.msgs)
    /\ joined' = joined \cup {c}
    /\ UNCHANGED <<layoutVars, v3Vars, mode, connState, uploads, expired>>

\* A 'leave' message naming userId arrives on connection c.
FPLeave(c, userId) ==
    /\ connState[c] = "open"
    /\ LET r == handleLeave(SS, connState, userId) IN
         /\ HandlesLeft(r.ss)
         /\ Install(r.ss)
         /\ sent' = Deliverable(connState, r.msgs)
    /\ UNCHANGED <<layoutVars, v3Vars, mode, connState, joined, uploads, expired>>

\* Connection c closes: handleDisconnect finds a client registered with that
\* socket (any of them, whatever the insertion order) and runs handleLeave.
FPDisconnect(c) ==
    /\ connState[c] = "open"
    /\ connState' = [connState EXCEPT ![c] = "closed"]
    /\ LET mine == {u \in DOMAIN clients : clients[u].ws = c} IN
         IF mine = {} THEN
             /\ UNCHANGED <<layoutVars, rooms, userToRoom, timers, clients>>
             /\ sent' = {}
         ELSE \E u \in mine :
             LET r == handleLeave(SS, connState', u) IN
             /\ HandlesLeft(r.ss)
             /\ Install(r.ss)
             /\ sent' = Deliverable(connState', r.msgs)
    /\ UNCHANGED <<layoutVars, v3Vars, mode, joined, uploads, expired>>

\* The grace period of a pending deletion timer runs out.  A room with a
\* suspended upload request is left alone: the handler holds the room object.
FPTimerFire(t) ==
    /\ t \in timers
    /\ \A p \in uploads : p.roomId # t.roomId
    /\ LET rm == deletionTimeout(RM, t) IN
         /\ rooms' = rm.rooms
         /\ userToRoom' = rm.userToRoom
         /\ timers' = rm.timers
    /\ expired' = expired \cup {t.roomId}
    /\ sent' = {}
    /\ UNCHANGED <<layoutVars, v3Vars, mode, connState, joined, clients, uploads>>

\* 'capture-now' or 'capture-request': handleCaptureNow / handleCaptureRequest.
FPCapture(c, type, roomId, photoNumber) ==
    /\ connState[c] = "open"
    /\ roomId \in DOMAIN rooms => Len(rooms[roomId].capturedPhotos) < MaxCaptured
    /\ rooms' = addCapturedPhoto(rooms, roomId, photoNumber)
    /\ sent' = Deliverable(connState,
                  broadcastToRoom([SS EXCEPT !.rm.rooms = rooms'], roomId, type, photoNumber))
    /\ UNCHANGED <<layoutVars, v3Vars, mode, connState, joined, userToRoom, timers, clients, uploads, expired>>

\* 'session-settings' and 'frame-layout-settings'.
FPSessionSettings(c, roomId, settings) ==
    /\ connState[c] = "open"
    /\ rooms' = updateSessionSettings(rooms, roomId, settings)
    /\ sent' = Deliverable(connState, broadcastToRoom(SS, roomId, "session-settings", settings))
    /\ UNCHANGED <<layoutVars, v3Vars, mode, connState, joined, userToRoom, timers, clients, uploads, expired>>

FPFrameLayoutSettings(c, roomId, settings) ==
    /\ connState[c] = "open"
    /\ rooms' = updateFrameLayoutSettings(rooms, roomId, settings)
    /\ sent' = Deliverable(connState,
                  broadcastToRoom(SS, roomId, "frame-layout-settings", settings))
    /\ UNCHANGED <<layoutVars, v3Vars, mode, connState, joined, userToRoom, timers, clients, uploads, expired>>

\* 'photo-select': handlePhotoSelect.
FPPhotoSelect(c, roomId, userId, selectedIndices) ==
    /\ connState[c] = "open"
    /\ userId \in DOMAIN clients
    /\ rooms' = updateSelectedPhotos(rooms, roomId, clients[userId].role, selectedIndices)
    /\ sent' = Deliverable(connState,
                  broadcastToRoom(SS, roomId, "photo-select-sync", userId))
    /\ UNCHANGED <<layoutVars, v3Vars, mode, connState, joined, userToRoom, timers, clients, uploads, expired>>

\* =========================================================================
\* Fixed-pair mode: photo router, POST /upload with batch merge
\* =========================================================================

expectedPhotoCount(room) ==
    IF room.frameLayoutSettings # NoSettings THEN room.frameLayoutSettings
    ELSE DefaultPhotoCount

allPhotosUploaded(room) ==
    /\ Len(room.capturedPhotos) = expectedPhotoCount(room)
    /\ \A i \in 1..Len(room.capturedPhotos) :
          room.capturedPhotos[i].hostImageUrl /\ room.capturedPhotos[i].guestImageUrl

\* The batch loop from position i on: the first photo it has to merge, which
\* is where it awaits mergeImages; 0 when it runs to the end without awaiting.
NextToMerge(photos, i) ==
    LET due == {j \in i..Len(photos) :
                   ~photos[j].mergedImageUrl /\ photos[j].hostImageUrl
                   /\ photos[j].guestImageUrl}
    IN IF due = {} THEN 0 ELSE Min(due)

\* The loop runs from position i until it awaits a merge or broadcasts.
BatchFrom(p, rs, i) ==
    LET j == NextToMerge(rs[p.roomId].capturedPhotos, i) IN
    IF j = 0 THEN
        /\ rooms' = [rs EXCEPT ![p.roomId].mergedEvents = Bump(@)]
        /\ uploads' = uploads \ {p}
        /\ sent' = Deliverable(connState,
                      broadcastToRoom([SS EXCEPT !.rm.rooms = rs], p.roomId,
                                      "photos-merged", 0))
    ELSE
        /\ rooms' = [rs EXCEPT ![p.roomId].capturedPhotos[j].merges = Bump(@)]
        /\ uploads' = (uploads \ {p}) \cup {[p EXCEPT !.pc = "merging", !.idx = j]}
        /\ sent' = {}

\* POST /upload up to `await imageMerger.saveBase64Image`.
UploadBegin(roomId, userId, photoNumber) ==
    /\ roomId \in DOMAIN rooms
    /\ Cardinality(uploads) < MaxUploads
    /\ uploads' = uploads \cup
         {[roomId |-> roomId, photoNumber |-> photoNumber, pc |-> "saving", idx |-> 0,
           role |-> IF rooms[roomId].hostId = userId THEN "host" ELSE "guest"]}
    /\ sent' = {}
    /\ UNCHANGED <<layoutVars, v3Vars, mode, connState, joined, rooms, userToRoom, timers, clients, expired>>

\* The image is saved: updatePhotoUrl, the allPhotosUploaded check and the
\* batch loop up to its first await.
UploadSaved(p) ==
    /\ p \in uploads /\ p.pc = "saving"
    /\ LET rs == updatePhotoUrl(rooms, p.roomId, p.photoNumber, p.role) IN
         IF allPhotosUploaded(rs[p.roomId]) THEN BatchFrom(p, rs, 1)
         ELSE /\ rooms' = rs
              /\ uploads' = uploads \ {p}
              /\ sent' = {}
    /\ UNCHANGED <<layoutVars, v3Vars, mode, connState, joined, userToRoom, timers, clients, expired>>

\* mergeImages settles (ok) or throws (~ok, caught inside the loop); the loop
\* goes on to its next await or to the broadcast.
MergeSettled(p, ok) ==
    /\ p \in uploads /\ p.pc = "merging"
    /\ LET rs == IF ok THEN updateMergedPhotoUrl(rooms, p.roomId,
                                rooms[p.roomId].capturedPhotos[p.idx].photoNumber)
                  ELSE rooms
       IN BatchFrom(p, rs, p.idx + 1)
    /\ UNCHANGED <<layoutVars, v3Vars, mode, connState, joined, userToRoom, timers, clients, expired>>

\* =========================================================================
\* Fixed-pair mode: video segment upload
\* =========================================================================

\* RoomManager's segment store, keyed by photo number.
addUploadedSegment(rs, roomId, photoNumber) ==
    IF roomId \notin DOMAIN rs THEN rs
    ELSE [rs EXCEPT ![roomId].uploadedSegments = @ \cup {photoNumber}]

getUploadedSegments(rs, roomId) ==
    IF roomId \notin DOMAIN rs THEN {} ELSE rs[roomId].uploadedSegments

clearUploadedSegments(rs, roomId) ==
    IF roomId \notin DOMAIN rs THEN rs
    ELSE [rs EXCEPT ![roomId].uploadedSegments = {},
                    \* a new capture round: its history starts over
                    ![roomId].allSegmentsEvents = 0, ![roomId].segmentUploads = 0]

\* POST /upload-segment (multer has stored the file before the handler runs).
UploadSegment(roomId, userId, photoNumber) ==
    /\ roomId \in DOMAIN rooms
    /\ LET rs == addUploadedSegment(rooms, roomId, photoNumber)
           all == Cardinality(getUploadedSegments(rs, roomId)) = SegmentsRequired
           ss == [SS EXCEPT !.rm.rooms = rs]
       IN /\ rooms' = [rs EXCEPT ![roomId].segmentUploads = Bump(@),
                                 ![roomId].allSegmentsEvents = IF all THEN Bump(@) ELSE @]
          /\ sent' = Deliverable(connState,
                        broadcastToRoom(ss, roomId, "segment-uploaded", photoNumber) \cup
                        (IF all THEN broadcastToRoom(ss, roomId, "all-segments-uploaded",
                                                     SegmentsRequired)
                         ELSE {}))
    /\ UNCHANGED <<layoutVars, v3Vars, mode, connState, joined, userToRoom, timers, clients, uploads, expired>>

\* POST /clear-segments (the awaited unlinks of the stored files change no
\* state of the room).
ClearSegments(roomId) ==
    /\ roomId \in DOMAIN rooms
    /\ rooms' = clearUploadedSegments(rooms, roomId)
    /\ sent' = {}
    /\ UNCHANGED <<layoutVars, v3Vars, mode, connState, joined, userToRoom, timers, clients, uploads, expired>>

\* =========================================================================
\* Fixed-pair mode: composition from uploaded segments
\* =========================================================================

\* FRAME_LAYOUTS: the slot count of each layout id.
slotCount == [l \in {"4cut-grid", "1cut-polaroid", "4cut-quoka"} |->
                 IF l = "1cut-polaroid" THEN 1 ELSE 4]

Range(q) == {q[i] : i \in DOMAIN q}

\* RoomManager.getSegmentsByPhotoNumbers: the stored segments whose photo
\* number is among the given ones.
getSegmentsByPhotoNumbers(rs, roomId, photoNumbers) ==
    {n \in getUploadedSegments(rs, roomId) : n \in Range(photoNumbers)}

IsMissing(found, n) == n \notin found

\* The handler without its comparison of the selection with the slot count.
composeFromUploaded_NoCountCheck(rs, roomId, layoutId, selectedPhotoNumbers) ==
    LET segments == getSegmentsByPhotoNumbers(rs, roomId, selectedPhotoNumbers)
        isMissing(n) == IsMissing(segments, n)
    IN IF Len(selectedPhotoNumbers) = 0
       THEN [status |-> 400, error |-> "required", listed |-> FALSE, missing |-> <<>>,
             inputs |-> <<>>]
       ELSE IF Cardinality(segments) # Len(selectedPhotoNumbers)
       THEN [status |-> 400, error |-> "Some segments not found", listed |-> TRUE,
             missing |-> SelectSeq(selectedPhotoNumbers, isMissing), inputs |-> <<>>]
       ELSE [status |-> 200, error |-> "none", listed |-> FALSE, missing |-> <<>>,
             inputs |-> selectedPhotoNumbers]

\* POST /compose-from-uploaded up to `await composer.compose`: the response
\* of a rejected request (`listed`: it has a missingPhotoNumbers field), or
\* the segments handed to the composer, in the order of the selection.
composeFromUploaded(rs, roomId, layoutId, selectedPhotoNumbers) ==
    LET segments == getSegmentsByPhotoNumbers(rs, roomId, selectedPhotoNumbers)
        isMissing(n) == IsMissing(segments, n)
    IN IF Len(selectedPhotoNumbers) = 0
       THEN [status |-> 400, error |-> "required", listed |-> FALSE, missing |-> <<>>,
             inputs |-> <<>>]
       ELSE IF Len(selectedPhotoNumbers) # slotCount[layoutId]
       THEN [status |-> 400, error |-> "requires", listed |-> FALSE, missing |-> <<>>,
             inputs |-> <<>>]
       ELSE IF Cardinality(segments) # Len(selectedPhotoNumbers)
       THEN [status |-> 400, error |-> "Some segments not found", listed |-> TRUE,
             missing |-> SelectSeq(selectedPhotoNumbers, isMissing), inputs |-> <<>>]
       ELSE [status |-> 200, error |-> "none", listed |-> FALSE, missing |-> <<>>,
             inputs |-> selectedPhotoNumbers]

\* The request arrives: it is answered with 400 (`sent` holds the response,
\* written to the requester's HTTP connection), or the composition starts and
\* the handler is suspended in it.
ComposeBegin(roomId, userId, layoutId, selectedPhotoNumbers) ==
    /\ Cardinality(uploads) < MaxUploads
    /\ LET r == composeFromUploaded(rooms, roomId, layoutId, selectedPhotoNumbers) IN
         IF r.status = 400
         THEN /\ sent' = {[to |-> "http", type |-> r.error, about |-> r.missing]}
              /\ uploads' = uploads
         ELSE /\ sent' = {}
              /\ uploads' = uploads \cup {[roomId |-> roomId, userId |-> userId,
                                           pc |-> "composing", inputs |-> r.inputs]}
    /\ UNCHANGED <<layoutVars, v3Vars, mode, connState, joined, rooms, userToRoom, timers, clients, expired>>

\* composer.compose resolves (ok: 'video-frame-ready' is broadcast to the
\* room) or throws (the handler answers 500).
ComposeSettled(p, ok) ==
    /\ p \in uploads /\ p.pc = "composing"
    /\ uploads' = uploads \ {p}
    /\ sent' = IF ok THEN Deliverable(connState,
                             broadcastToRoom(SS, p.roomId, "video-frame-ready", p.userId))
               ELSE {}
    /\ UNCHANGED <<layoutVars, v3Vars, mode, connState, joined, rooms, userToRoom, timers, clients, expired>>

\* =========================================================================
\* Rotating mode: V3RoomManager
\* =========================================================================

\* HostSettings, as the keys the messages set and the value of each.
SettingKeys == {"chromaKey", "selectedFrameLayoutId"}
SettingValues == {1, 2}

\* handleHostJoin's defaultSettings.
DefaultSettings == [k \in SettingKeys |-> 1]

\* Partial<HostSettings>: the values of some of the keys.
PartialSettings == UNION {[K -> SettingValues] : K \in SUBSET SettingKeys \ {{}}}

NewSession(sessionId, guestId) ==
    [sessionId |-> sessionId, guestId |-> guestId,
     hostPhotoUrl |-> FALSE, guestPhotoUrl |-> FALSE, mergedPhotoUrl |-> FALSE,
     frameResultUrl |-> FALSE, status |-> "in_progress",
     \* history, not fields of V3Session:
     dispatched |-> 0,        \* merges dispatched while this session was current
     mergeFailed |-> FALSE,   \* a merge dispatched for it threw or gave no result
     suppressed |-> FALSE]    \* an upload found it ready while a merge was in flight

V3_createRoom(rs, roomId, hostId, initialSettings) ==
    Put(rs, roomId,
        [hostId |-> hostId, currentGuestId |-> NoUser,
         hostSettings |-> initialSettings, completedSessions |-> <<>>,
         \* history: the hostId createRoom was given, and the connection whose
         \* settings message was the last to reach updateHostSettings
         createdBy |-> hostId, settingsFrom |-> "none"])

\* `{...room.hostSettings, ...settings}`
V3_updateHostSettings(rs, roomId, settings) ==
    IF roomId \notin DOMAIN rs THEN rs
    ELSE [rs EXCEPT ![roomId].hostSettings =
            [k \in DOMAIN @ \cup DOMAIN settings |->
                IF k \in DOMAIN settings THEN settings[k] ELSE @[k]]]

\* getCurrentSession without the `status === 'in_progress'` filter.
getCurrentSession_AnyStatus(rs, roomId) ==
    IF roomId \notin DOMAIN rs THEN 0
    ELSE IF rs[roomId].currentGuestId = NoUser THEN 0
    ELSE LET ss == rs[roomId].completedSessions
             mine == {i \in 1..Len(ss) : ss[i].guestId = rs[roomId].currentGuestId}
         IN IF mine = {} THEN 0 ELSE Max(mine)

\* Position of the current session in completedSessions, 0 when there is
\* none: the latest in-progress session of the current guest.
getCurrentSession(rs, roomId) ==
    IF roomId \notin DOMAIN rs THEN 0
    ELSE IF rs[roomId].currentGuestId = NoUser THEN 0
    ELSE LET ss == rs[roomId].completedSessions
             mine == {i \in 1..Len(ss) : /\ ss[i].guestId = rs[roomId].currentGuestId
                                         /\ ss[i].status = "in_progress"}
         IN IF mine = {} THEN 0 ELSE Max(mine)

\* joinGuest without `if (room.currentGuestId) return null`.
joinGuest_NoGuestCheck(rs, roomId, guestId, sessionId) ==
    IF roomId \notin DOMAIN rs THEN [ok |-> FALSE, rs |-> rs]
    ELSE [ok |-> TRUE,
          rs |-> [rs EXCEPT ![roomId].currentGuestId = guestId,
                            ![roomId].completedSessions =
                                Append(@, NewSession(sessionId, guestId))]]

joinGuest(rs, roomId, guestId, sessionId) ==
    IF roomId \notin DOMAIN rs THEN [ok |-> FALSE, rs |-> rs]
    ELSE IF rs[roomId].currentGuestId # NoUser THEN [ok |-> FALSE, rs |-> rs]
    ELSE [ok |-> TRUE,
          rs |-> [rs EXCEPT ![roomId].currentGuestId = guestId,
                            ![roomId].completedSessions =
                                Append(@, NewSession(sessionId, guestId))]]

\* leaveGuest without the comparison of guestId with the attached guest.
leaveGuest_AnyGuest(rs, roomId, guestId) ==
    IF roomId \notin DOMAIN rs THEN [ok |-> FALSE, rs |-> rs]
    ELSE LET i == getCurrentSession(rs, roomId)
             r1 == IF i = 0 THEN rs
                   ELSE [rs EXCEPT ![roomId].completedSessions[i].status = "completed"]
         IN [ok |-> TRUE, rs |-> [r1 EXCEPT ![roomId].currentGuestId = NoUser]]

\* leaveGuest without the settings it preserves: the room goes back to the
\* default settings.
leaveGuest_ResetsSettings(rs, roomId, guestId) ==
    IF roomId \notin DOMAIN rs THEN [ok |-> FALSE, rs |-> rs]
    ELSE IF rs[roomId].currentGuestId # guestId THEN [ok |-> FALSE, rs |-> rs]
    ELSE [ok |-> TRUE, rs |-> [rs EXCEPT ![roomId].currentGuestId = NoUser,
                                        ![roomId].hostSettings = DefaultSettings]]

\* leaveGuest that detaches the guest and leaves the session as it is.
leaveGuest_KeepsSession(rs, roomId, guestId) ==
    IF roomId \notin DOMAIN rs THEN [ok |-> FALSE, rs |-> rs]
    ELSE IF rs[roomId].currentGuestId # guestId THEN [ok |-> FALSE, rs |-> rs]
    ELSE [ok |-> TRUE, rs |-> [rs EXCEPT ![roomId].currentGuestId = NoUser]]

leaveGuest(rs, roomId, guestId) ==
    IF roomId \notin DOMAIN rs THEN [ok |-> FALSE, rs |-> rs]
    ELSE IF rs[roomId].currentGuestId # guestId THEN [ok |-> FALSE, rs |-> rs]
    ELSE LET i == getCurrentSession(rs, roomId)
             r1 == IF i = 0 THEN rs
                   ELSE [rs EXCEPT ![roomId].completedSessions[i].status = "completed"]
         IN [ok |-> TRUE, rs |-> [r1 EXCEPT ![roomId].currentGuestId = NoUser]]

updateSessionPhoto(rs, roomId, role) ==
    LET i == getCurrentSession(rs, roomId) IN
    IF i = 0 THEN [ok |-> FALSE, rs |-> rs]
    ELSE [ok |-> TRUE,
          rs |-> IF role = "host"
                 THEN [rs EXCEPT ![roomId].completedSessions[i].hostPhotoUrl = TRUE]
                 ELSE [rs EXCEPT ![roomId].completedSessions[i].guestPhotoUrl = TRUE]]

\* isSessionReadyForMerge that looks at the host photo only.
isSessionReadyForMerge_HostOnly(rs, roomId) ==
    LET i == getCurrentSession(rs, roomId) IN
    IF i = 0 THEN FALSE ELSE rs[roomId].completedSessions[i].hostPhotoUrl

isSessionReadyForMerge(rs, roomId) ==
    LET i == getCurrentSession(rs, roomId) IN
    IF i = 0 THEN FALSE
    ELSE /\ rs[roomId].completedSessions[i].hostPhotoUrl
         /\ rs[roomId].completedSessions[i].guestPhotoUrl

updateSessionMergedPhoto(rs, roomId) ==
    LET i == getCurrentSession(rs, roomId) IN
    IF i = 0 THEN [ok |-> FALSE, rs |-> rs]
    ELSE [ok |-> TRUE,
          rs |-> [rs EXCEPT ![roomId].completedSessions[i].mergedPhotoUrl = TRUE]]

\* Returns the position of the completed session, 0 for null.
completeSession(rs, roomId) ==
    LET i == getCurrentSession(rs, roomId) IN
    IF i = 0 THEN [session |-> 0, rs |-> rs]
    ELSE [session |-> i,
          rs |-> [rs EXCEPT ![roomId].completedSessions[i].frameResultUrl = TRUE,
                            ![roomId].completedSessions[i].status = "completed"]]

destroyRoom(rs, roomId) == IF roomId \in DOMAIN rs THEN Del(rs, roomId) ELSE rs

\* A caller invokes a method of the manager; `roomsAfter` is the store the
\* call leaves.
Call(roomsAfter) ==
    /\ v3rooms' = roomsAfter
    /\ sent' = {}
    /\ UNCHANGED <<layoutVars, fpVars, mode, connState, joined, v3clients, rejected, superseded,
                   countdowns, v3uploads, mergeInProgress, merges, photoBuffers>>

\* createRoom, called as handleHostJoin calls it: for an id with no room.
CallCreateRoom(roomId, hostId) ==
    /\ roomId \notin DOMAIN v3rooms
    /\ Call(V3_createRoom(v3rooms, roomId, hostId, DefaultSettings))
    /\ UNCHANGED nextSessionId

CallJoinGuest(roomId, guestId) ==
    /\ nextSessionId <= MaxSessions
    /\ LET j == joinGuest(v3rooms, roomId, guestId, nextSessionId) IN
         /\ Call(j.rs)
         /\ nextSessionId' = IF j.ok THEN nextSessionId + 1 ELSE nextSessionId

CallLeaveGuest(roomId, guestId) ==
    Call(leaveGuest(v3rooms, roomId, guestId).rs) /\ UNCHANGED nextSessionId

CallUpdateSessionPhoto(roomId, role) ==
    Call(updateSessionPhoto(v3rooms, roomId, role).rs) /\ UNCHANGED nextSessionId

CallUpdateSessionMergedPhoto(roomId) ==
    Call(updateSessionMergedPhoto(v3rooms, roomId).rs) /\ UNCHANGED nextSessionId

CallCompleteSession(roomId) ==
    Call(completeSession(v3rooms, roomId).rs) /\ UNCHANGED nextSessionId

CallDestroyRoom(roomId) ==
    Call(destroyRoom(v3rooms, roomId)) /\ UNCHANGED nextSessionId

\* =========================================================================
\* Rotating mode: V3SignalingServer
\* =========================================================================

\* The server's state as one value, so that its handlers are operators.
SS3 == [rm |-> v3rooms, clients |-> v3clients]

\* A message of the rotating-mode server: `about` is the room or user id it
\* names, `count` the count of a countdown tick (0 otherwise), `hostSettings`
\* the settings it carries (none unless WithSettings adds them).
Msg3(conn, type, about, count) ==
    [to |-> conn, type |-> type, about |-> about, count |-> count,
     hostSettings |-> Empty]

WithSettings(m, settings) == [m EXCEPT !.hostSettings = settings]

\* Map.set appends a new key: `ord` is the key's place in iteration order.
NextOrd(cl) == IF DOMAIN cl = {} THEN 1 ELSE Max({cl[u].ord : u \in DOMAIN cl}) + 1

FirstOf(cl, S) == IF S = {} THEN NoUser
                  ELSE CHOOSE u \in S : \A v \in S : cl[u].ord <= cl[v].ord

findClientByRole(cl, roomId, role) ==
    FirstOf(cl, {u \in DOMAIN cl : cl[u].roomId = roomId /\ cl[u].role = role})

findClientByWs(cl, ws) == FirstOf(cl, {u \in DOMAIN cl : cl[u].ws = ws})

V3_broadcastToRoom(cl, roomId, type, about, count) ==
    {Msg3(cl[u].ws, type, about, count) : u \in {v \in DOMAIN cl : cl[v].roomId = roomId}}

handleHostJoin(ss, ws, roomId, hostId) ==
    IF roomId \in DOMAIN ss.rm /\ ss.rm[roomId].hostId # hostId
    THEN [ss |-> ss, err |-> TRUE, msgs |-> {Msg3(ws, "error", roomId, 0)}]
    ELSE LET rm == IF roomId \in DOMAIN ss.rm THEN ss.rm
                   ELSE V3_createRoom(ss.rm, roomId, hostId, DefaultSettings)
         IN [ss |-> [ss EXCEPT !.rm = rm], err |-> FALSE,
             msgs |-> {Msg3(ws, "joined", hostId, 0)} \cup
                      (IF rm[roomId].currentGuestId = NoUser
                       THEN {Msg3(ws, "waiting-for-guest-v3", roomId, 0)} ELSE {})]

handleGuestJoin(ss, ws, roomId, guestId, sessionId) ==
    LET j == joinGuest(ss.rm, roomId, guestId, sessionId)
        hostClient == findClientByRole(ss.clients, roomId, "host")
    IN IF ~j.ok
       THEN [ss |-> ss, err |-> TRUE, msgs |-> {Msg3(ws, "error", roomId, 0)}]
       ELSE [ss |-> [ss EXCEPT !.rm = j.rs], err |-> FALSE,
             msgs |-> {WithSettings(Msg3(ws, "guest-joined-v3", guestId, 0),
                                    j.rs[roomId].hostSettings),
                       Msg3(ws, "peer-joined", ss.rm[roomId].hostId, 0)} \cup
                      (IF hostClient = NoUser THEN {}
                       ELSE {WithSettings(Msg3(ss.clients[hostClient].ws,
                                               "guest-joined-v3", guestId, 0),
                                          j.rs[roomId].hostSettings),
                             Msg3(ss.clients[hostClient].ws, "peer-joined", guestId, 0)})]

\* ws.close() on an open socket leaves it CLOSING until its close event.
Close(cs, ws) == [cs EXCEPT ![ws] = IF @ = "open" THEN "closing" ELSE @]

\* handleJoin that closes the old socket of a known user but keeps its entry.
V3_handleJoin_KeepsOld(ss, cs, ws, roomId, userId, role, sessionId) ==
    LET known == userId \in DOMAIN ss.clients
        old == IF known THEN {ss.clients[userId].ws} ELSE {}
        cs1 == IF known THEN Close(cs, ss.clients[userId].ws) ELSE cs
        s1 == IF known THEN ss
              ELSE [ss EXCEPT !.clients =
                      Put(ss.clients, userId, [ws |-> ws, userId |-> userId,
                          roomId |-> roomId, role |-> role, ord |-> NextOrd(ss.clients)])]
        r == IF role = "host" THEN handleHostJoin(s1, ws, roomId, userId)
             ELSE handleGuestJoin(s1, ws, roomId, userId, sessionId)
    IN [ss |-> r.ss, cs |-> cs1, err |-> r.err, msgs |-> Deliverable(cs1, r.msgs),
        old |-> old]

V3_handleJoin(ss, cs, ws, roomId, userId, role, sessionId) ==
    LET known == userId \in DOMAIN ss.clients
        old == IF known THEN {ss.clients[userId].ws} ELSE {}
        cs1 == IF known THEN Close(cs, ss.clients[userId].ws) ELSE cs
        cl0 == IF known THEN Del(ss.clients, userId) ELSE ss.clients
        s1 == [ss EXCEPT !.clients =
                  Put(cl0, userId, [ws |-> ws, userId |-> userId, roomId |-> roomId,
                                    role |-> role, ord |-> NextOrd(cl0)])]
        r == IF role = "host" THEN handleHostJoin(s1, ws, roomId, userId)
             ELSE handleGuestJoin(s1, ws, roomId, userId, sessionId)
    IN [ss |-> r.ss, cs |-> cs1, err |-> r.err, msgs |-> Deliverable(cs1, r.msgs),
        old |-> old]

V3_handleLeave(ss, cs, roomId, userId) ==
    IF userId \notin DOMAIN ss.clients THEN [ss |-> ss, msgs |-> {}]
    ELSE IF ss.clients[userId].role = "host"
    THEN LET guestClient == findClientByRole(ss.clients, roomId, "guest")
         IN [ss |-> [rm |-> destroyRoom(ss.rm, roomId),
                     clients |-> Del(ss.clients, userId)],
             msgs |-> Deliverable(cs,
                        IF guestClient = NoUser THEN {}
                        ELSE {Msg3(ss.clients[guestClient].ws, "peer-left", userId, 0)})]
    ELSE LET hostClient == findClientByRole(ss.clients, roomId, "host")
         IN [ss |-> [rm |-> leaveGuest(ss.rm, roomId, userId).rs,
                     clients |-> Del(ss.clients, userId)],
             msgs |-> Deliverable(cs,
                        IF hostClient = NoUser THEN {}
                        ELSE {Msg3(ss.clients[hostClient].ws, t, userId, 0) :
                                t \in {"guest-left-v3", "waiting-for-guest-v3", "peer-left"}})]

V3_handleDisconnect(ss, cs, ws) ==
    LET client == findClientByWs(ss.clients, ws) IN
    IF client = NoUser THEN [ss |-> ss, msgs |-> {}]
    ELSE V3_handleLeave(ss, cs, ss.clients[client].roomId, client)

Install3(r) ==
    /\ v3rooms' = r.ss.rm
    /\ v3clients' = r.ss.clients
    /\ sent' = r.msgs

Member3(c, u) == u \in DOMAIN v3clients /\ v3clients[u].ws = c

\* 'join' arrives on connection c.
V3Join(c, roomId, userId, role) ==
    /\ connState[c] = "open"
    /\ role = "guest" => nextSessionId <= MaxSessions
    /\ LET r == V3_handleJoin(SS3, connState, c, roomId, userId, role, nextSessionId) IN
         /\ Install3(r)
         /\ connState' = r.cs
         /\ nextSessionId' = IF role = "guest" /\ ~r.err THEN nextSessionId + 1
                             ELSE nextSessionId
         /\ rejected' = IF r.err THEN rejected \cup {c} ELSE rejected
         /\ superseded' = superseded \cup
                             {<<w, userId>> : w \in {x \in r.old : connState[x] = "open" /\ x # c}}
    /\ joined' = joined \cup {c}
    /\ UNCHANGED <<layoutVars, fpVars, mode, countdowns, v3uploads, mergeInProgress, merges, photoBuffers>>

\* 'leave' arrives on connection c from the user registered on it.
V3Leave(c, userId) ==
    /\ connState[c] = "open" /\ Member3(c, userId)
    /\ Install3(V3_handleLeave(SS3, connState, v3clients[userId].roomId, userId))
    /\ UNCHANGED <<layoutVars, fpVars, mode, connState, joined, nextSessionId, rejected, superseded,
                   countdowns, v3uploads, mergeInProgress, merges, photoBuffers>>

\* The client closes connection c: its close event runs handleDisconnect.
V3Disconnect(c) ==
    /\ connState[c] = "open"
    /\ connState' = [connState EXCEPT ![c] = "closed"]
    /\ Install3(V3_handleDisconnect(SS3, connState', c))
    /\ UNCHANGED <<layoutVars, fpVars, mode, joined, nextSessionId, rejected, superseded,
                   countdowns, v3uploads, mergeInProgress, merges, photoBuffers>>

\* The close event of a connection the server has closed.
V3CloseEvent(c) ==
    /\ connState[c] = "closing"
    /\ connState' = [connState EXCEPT ![c] = "closed"]
    /\ Install3(V3_handleDisconnect(SS3, connState', c))
    /\ UNCHANGED <<layoutVars, fpVars, mode, joined, nextSessionId, rejected, superseded,
                   countdowns, v3uploads, mergeInProgress, merges, photoBuffers>>

\* History: the settings message that reached updateHostSettings came in on
\* connection c.
SettingsFrom(rs, roomId, c) ==
    IF roomId \notin DOMAIN rs THEN rs ELSE [rs EXCEPT ![roomId].settingsFrom = c]

\* 'host-settings-sync-v3'
V3HostSettingsSync(c, roomId, settings) ==
    /\ connState[c] = "open"
    /\ v3rooms' = SettingsFrom(V3_updateHostSettings(v3rooms, roomId, settings), roomId, c)
    /\ LET guestClient == findClientByRole(v3clients, roomId, "guest") IN
         sent' = Deliverable(connState,
                    IF guestClient = NoUser THEN {}
                    ELSE {WithSettings(Msg3(v3clients[guestClient].ws,
                                            "host-settings-sync-v3", roomId, 0),
                                       settings)})
    /\ UNCHANGED <<layoutVars, fpVars, mode, connState, joined, v3clients, nextSessionId, rejected,
                   superseded, countdowns, v3uploads, mergeInProgress, merges, photoBuffers>>

\* 'frame-selected-v3'
V3FrameSelected(c, roomId, layoutId) ==
    /\ connState[c] = "open"
    /\ LET chosen == [k \in {"selectedFrameLayoutId"} |-> layoutId] IN
         /\ v3rooms' = SettingsFrom(V3_updateHostSettings(v3rooms, roomId, chosen), roomId, c)
         /\ sent' = Deliverable(connState,
                       {WithSettings(m, chosen) :
                          m \in V3_broadcastToRoom(v3clients, roomId,
                                                   "frame-selected-v3", roomId, 0)})
    /\ UNCHANGED <<layoutVars, fpVars, mode, connState, joined, v3clients, nextSessionId, rejected,
                   superseded, countdowns, v3uploads, mergeInProgress, merges, photoBuffers>>

\* 'start-capture-v3': the broadcast, and startCountdown up to its first sleep.
\* Every sleep lasts as long as every other, so the sleeping calls wake in
\* the order they went to sleep: `countdowns` is that queue.
V3StartCapture(c, roomId) ==
    /\ connState[c] = "open"
    /\ Len(countdowns) < MaxCountdowns
    /\ sent' = Deliverable(connState,
                  V3_broadcastToRoom(v3clients, roomId, "start-capture-v3", roomId, 0))
    /\ countdowns' = Append(countdowns, [roomId |-> roomId, count |-> CountdownFrom,
                                         \* history: the counts broadcast so far
                                         emitted |-> <<>>])
    /\ UNCHANGED <<layoutVars, fpVars, mode, connState, joined, v3rooms, v3clients, nextSessionId,
                   rejected, superseded, v3uploads, mergeInProgress, merges, photoBuffers>>

\* startCountdown with `count > 1` as its loop condition.
startCountdown_StopsEarly(k) ==
    IF k.count > 1
    THEN [type |-> "countdown-tick-v3", count |-> k.count,
          next |-> <<[k EXCEPT !.count = @ - 1, !.emitted = Append(@, k.count)]>>]
    ELSE [type |-> "capture-now-v3", count |-> 0, next |-> <<>>]

\* startCountdown from one sleep to the next: what it broadcasts when it
\* wakes with `count` left, and the call as it goes back to sleep (none
\* after capture-now).
startCountdown(k) ==
    IF k.count > 0
    THEN [type |-> "countdown-tick-v3", count |-> k.count,
          next |-> <<[k EXCEPT !.count = @ - 1, !.emitted = Append(@, k.count)]>>]
    ELSE [type |-> "capture-now-v3", count |-> 0, next |-> <<>>]

\* The earliest sleep of startCountdown ends: the tick for `count`, or
\* capture-now after the last tick.
V3CountdownWake ==
    /\ countdowns # <<>>
    /\ LET k == Head(countdowns)
           step == startCountdown(k)
       IN /\ sent' = Deliverable(connState,
                        V3_broadcastToRoom(v3clients, k.roomId, step.type,
                                           k.roomId, step.count))
          /\ countdowns' = Tail(countdowns) \o step.next
    /\ UNCHANGED <<layoutVars, fpVars, mode, connState, joined, v3rooms, v3clients, nextSessionId,
                   rejected, superseded, v3uploads, mergeInProgress, merges, photoBuffers>>

\* =========================================================================
\* Rotating mode: the V3 photo router (photo-v3.ts, and groups.ts with R2)
\* =========================================================================

\* The dispatch condition without `!mergeInProgress.has(roomId)`.
canDispatchMerge_NoGuard(rs, mip, roomId) == isSessionReadyForMerge(rs, roomId)

\* `if (isSessionReadyForMerge(roomId) && !mergeInProgress.has(roomId))`
canDispatchMerge(rs, mip, roomId) ==
    isSessionReadyForMerge(rs, roomId) /\ roomId \notin mip

\* History: a merge dispatched for the session threw or returned null.
MarkFailed(rs, roomId, sessionId) ==
    IF roomId \notin DOMAIN rs THEN rs
    ELSE [rs EXCEPT ![roomId].completedSessions =
            [i \in DOMAIN @ |-> IF @[i].sessionId = sessionId
                                THEN [@[i] EXCEPT !.mergeFailed = TRUE] ELSE @[i]]]

FreeUploadId == Min((1..MaxUploads) \ {p.id : p \in v3uploads})

\* POST /upload up to `await imageMerger.saveBase64Image`.
V3UploadBegin(roomId, userId, role) ==
    /\ roomId \in DOMAIN v3rooms
    /\ role = "host" => v3rooms[roomId].hostId = userId
    /\ role = "guest" => v3rooms[roomId].currentGuestId = userId
    /\ Cardinality(v3uploads) < MaxUploads
    /\ v3uploads' = v3uploads \cup {[id |-> FreeUploadId, roomId |-> roomId, userId |-> userId,
                                    role |-> role]}
    /\ sent' = {}
    /\ UNCHANGED <<layoutVars, fpVars, mode, connState, joined, v3rooms, v3clients, nextSessionId,
                   rejected, superseded, countdowns, mergeInProgress, merges, photoBuffers>>

\* The image is saved: the handler runs on to its response, dispatching the
\* merge with setImmediate when the session is ready and none is in flight.
V3UploadSaved(p) ==
    /\ p \in v3uploads
    /\ v3uploads' = v3uploads \ {p}
    /\ photoBuffers' = IF mode = "v3r2" THEN photoBuffers \cup {<<p.roomId, p.role>>}
                       ELSE photoBuffers
    /\ LET rs == updateSessionPhoto(v3rooms, p.roomId, p.role).rs
           i == getCurrentSession(rs, p.roomId)
       IN IF canDispatchMerge(rs, mergeInProgress, p.roomId)
          THEN /\ mergeInProgress' = mergeInProgress \cup {p.roomId}
               /\ merges' = merges \cup
                    {[roomId |-> p.roomId, pc |-> "queued",
                      sessionId |-> rs[p.roomId].completedSessions[i].sessionId]}
               /\ v3rooms' = [rs EXCEPT ![p.roomId].completedSessions[i].dispatched = Bump(@)]
          ELSE /\ UNCHANGED <<layoutVars, mergeInProgress, merges>>
               /\ v3rooms' = IF isSessionReadyForMerge(rs, p.roomId)
                             THEN [rs EXCEPT ![p.roomId].completedSessions[i].suppressed = TRUE]
                             ELSE rs
    /\ sent' = {}
    /\ UNCHANGED <<layoutVars, fpVars, mode, connState, joined, v3clients, nextSessionId, rejected,
                   superseded, countdowns>>

\* What mergePhotos does before its first await: "null" and "already" are its
\* early returns, "merge" means it goes on to merge.
mergePhotosBegin(rs, bufs, roomId, variant) ==
    LET i == getCurrentSession(rs, roomId) IN
    IF ~isSessionReadyForMerge(rs, roomId) THEN "null"
    ELSE IF rs[roomId].completedSessions[i].mergedPhotoUrl THEN "already"
    ELSE IF variant = "v3r2" /\ ~({<<roomId, "host">>, <<roomId, "guest">>} \subseteq bufs)
         THEN "null"
    ELSE "merge"

\* The callback after mergePhotos has returned a url, and its finally block.
MergeReturned(m, rs) ==
    LET done == completeSession(rs, m.roomId) IN
    /\ v3rooms' = done.rs
    /\ sent' = Deliverable(connState,
                  V3_broadcastToRoom(v3clients, m.roomId, "photos-merged-v3", m.roomId, 0) \cup
                  (IF done.session = 0 THEN {}
                   ELSE V3_broadcastToRoom(v3clients, m.roomId, "session-complete-v3",
                                           m.roomId, 0)))

\* The callback without `mergeInProgress.delete(roomId)`.
MergeFinally_KeepsMarker(m) ==
    /\ merges' = merges \ {m}
    /\ mergeInProgress' = mergeInProgress
    /\ photoBuffers' = IF mode = "v3r2" THEN {b \in photoBuffers : b[1] # m.roomId}
                       ELSE photoBuffers

\* The callback's finally block.
MergeFinally(m) ==
    /\ merges' = merges \ {m}
    /\ mergeInProgress' = mergeInProgress \ {m.roomId}
    /\ photoBuffers' = IF mode = "v3r2" THEN {b \in photoBuffers : b[1] # m.roomId}
                       ELSE photoBuffers

MergeNoResult(m) ==
    /\ v3rooms' = MarkFailed(v3rooms, m.roomId, m.sessionId)
    /\ sent' = {}

\* The setImmediate callback starts: mergePhotos up to its first await, and
\* the rest of the callback when mergePhotos returns early.
V3MergeRun(m) ==
    /\ m \in merges /\ m.pc = "queued"
    /\ LET b == mergePhotosBegin(v3rooms, photoBuffers, m.roomId, mode) IN
         \/ /\ b = "null" /\ MergeNoResult(m) /\ MergeFinally(m)
         \/ /\ b = "already" /\ MergeReturned(m, v3rooms) /\ MergeFinally(m)
         \/ /\ b = "merge"
            /\ merges' = (merges \ {m}) \cup {[m EXCEPT !.pc = "merging"]}
            /\ sent' = {}
            /\ UNCHANGED <<layoutVars, v3rooms, mergeInProgress, photoBuffers>>
    /\ UNCHANGED <<layoutVars, fpVars, mode, connState, joined, v3clients, nextSessionId, rejected,
                   superseded, countdowns, v3uploads>>

\* The merge settles: mergePhotos records the url and returns it (ok), or
\* throws (~ok); then the rest of the callback.
V3MergeSettled(m, ok) ==
    /\ m \in merges /\ m.pc = "merging"
    /\ IF ok THEN MergeReturned(m, updateSessionMergedPhoto(v3rooms, m.roomId).rs)
       ELSE MergeNoResult(m)
    /\ MergeFinally(m)
    /\ UNCHANGED <<layoutVars, fpVars, mode, connState, joined, v3clients, nextSessionId, rejected,
                   superseded, countdowns, v3uploads>>

\* =========================================================================
\* Specifications
\* =========================================================================

\* =========================================================================
\* WebRTC signaling relay (offer, answer, ice) of both servers
\* =========================================================================

SignalKinds == {"offer", "answer", "ice"}

\* SignalingServer.handleWebRTCSignal: the message goes to the socket of the
\* client registered under `to`; `about` is the sender the message names.
handleWebRTCSignal(ss, from, to, type) ==
    IF to \in DOMAIN ss.clients THEN {Msg(ss.clients[to].ws, type, from)} ELSE {}

\* A variant that writes the message to every registered socket.
forwardToRoom_Everyone(cl, from, to, type) ==
    {Msg3(cl[u].ws, type, from, 0) : u \in DOMAIN cl}

\* V3SignalingServer.forwardToRoom
forwardToRoom(cl, from, to, type) ==
    IF to \in DOMAIN cl THEN {Msg3(cl[to].ws, type, from, 0)} ELSE {}

\* An offer, answer or ice message arrives on connection c of the fixed-pair
\* server.
FPSignal(c, from, to, type) ==
    /\ connState[c] = "open"
    /\ sent' = Deliverable(connState, handleWebRTCSignal(SS, from, to, type))
    /\ UNCHANGED <<layoutVars, fpVars, v3Vars, mode, connState, joined>>

\* The same on the rotating-mode server; send writes to OPEN sockets only.
V3Forward(c, from, to, type) ==
    /\ connState[c] = "open"
    /\ sent' = Deliverable(connState, forwardToRoom(v3clients, from, to, type))
    /\ UNCHANGED <<layoutVars, fpVars, v3Vars, mode, connState, joined>>

InitCommon ==
    /\ connState = [c \in Conns |-> "open"]
    /\ sent = {}
    /\ joined = {}

InitServers ==
    /\ InitCommon
    /\ rooms = Empty /\ userToRoom = Empty /\ timers = {} /\ clients = Empty
    /\ uploads = {} /\ expired = {}
    /\ v3rooms = Empty /\ v3clients = Empty /\ nextSessionId = 1
    /\ rejected = {} /\ superseded = {} /\ countdowns = <<>>
    /\ v3uploads = {} /\ mergeInProgress = {} /\ merges = {} /\ photoBuffers = {}

\* resolveLayout's defaults; nothing is resolved while the servers run.
InitObjects ==
    /\ InitServers
    /\ canvas = [width |-> VIDEO_WIDTH, height |-> VIDEO_HEIGHT]
    /\ ratios = <<>> /\ resolved = <<>>

InitFP == InitObjects /\ mode = "fp"

SettingsValues == {1}
Selections == {<<1>>}
Captures == {"capture-now", "capture-request"}

\* Room traffic as the clients send it: a registered member, on its own
\* socket, about its own room.
Member(c, u, r) == u \in DOMAIN clients /\ clients[u].ws = c /\ clients[u].roomId = r

NextFP ==
    \/ \E c \in Conns \ joined, r \in RoomIds \cup {NoRoomId}, u \in Users, role \in Roles :
          FPJoin(c, r, u, role)
    \/ \E u \in DOMAIN clients : FPLeave(clients[u].ws, u)
    \/ \E c \in Conns : FPDisconnect(c)
    \/ \E t \in timers : FPTimerFire(t)

SpecFP == InitFP /\ [][NextFP]_vars

\* One host and one guest, with the room traffic of a capture session.
TheHost == "u1"
TheGuest == "u2"
TheRoom == "r1"

\* The host's client joins with no room id until it has a room, and with
\* its room's id from then on.
HostJoinIds ==
    LET own == {r \in DOMAIN rooms : rooms[r].hostId = TheHost}
    IN IF own = {} THEN {NoRoomId} ELSE own

NextFPRoom ==
    \/ \E c \in Conns \ joined, r \in HostJoinIds : FPJoin(c, r, TheHost, "host")
    \/ \E c \in Conns \ joined, r \in RoomIds : FPJoin(c, r, TheGuest, "guest")
    \/ \E u \in DOMAIN clients : FPLeave(clients[u].ws, u)
    \/ \E c \in Conns : FPDisconnect(c)
    \/ \E t \in timers : FPTimerFire(t)
    \/ \E c \in Conns, r \in RoomIds, u \in Users, v \in SettingsValues :
          Member(c, u, r) /\ clients[u].role = "host" /\ FPSessionSettings(c, r, v)
    \/ \E c \in Conns, r \in RoomIds, u \in Users, sel \in Selections :
          Member(c, u, r) /\ FPPhotoSelect(c, r, u, sel)
    \/ \E c \in Conns, r \in RoomIds, u \in Users, n \in PhotoNumbers, k \in Captures :
          Member(c, u, r) /\ clients[u].role = "host" /\ FPCapture(c, k, r, n)

SpecFPRoom == InitFP /\ [][NextFPRoom]_vars

\* A capture session of one host and one guest with its photo uploads.
NextPhoto ==
    \/ \E c \in Conns \ joined, r \in HostJoinIds : FPJoin(c, r, TheHost, "host")
    \/ \E c \in Conns \ joined, r \in RoomIds : FPJoin(c, r, TheGuest, "guest")
    \/ \E c \in Conns, r \in RoomIds, u \in Users, v \in 1..MaxCaptured :
          Member(c, u, r) /\ clients[u].role = "host" /\ FPFrameLayoutSettings(c, r, v)
    \/ \E c \in Conns, r \in RoomIds, u \in Users, n \in PhotoNumbers :
          Member(c, u, r) /\ clients[u].role = "host" /\ FPCapture(c, "capture-now", r, n)
    \/ \E r \in RoomIds, u \in {TheHost, TheGuest}, n \in PhotoNumbers :
          UploadBegin(r, u, n)
    \/ \E p \in uploads : UploadSaved(p)
    \/ \E p \in uploads, ok \in BOOLEAN : MergeSettled(p, ok)

SpecPhoto == InitFP /\ [][NextPhoto]_vars

\* A host's room and the segment uploads of one capture round after another.
NextSeg ==
    \/ \E c \in Conns \ joined, r \in HostJoinIds : FPJoin(c, r, TheHost, "host")
    \/ \E r \in RoomIds, u \in {TheHost, TheGuest}, n \in SegmentNumbers :
          UploadSegment(r, u, n)
    \/ \E r \in RoomIds : ClearSegments(r)

SpecSeg == InitFP /\ [][NextSeg]_vars

\* Photo numbers a composition request selects, and its selections: of one,
\* two or four numbers, also repeated ones.
ComposeNumbers == 1..2
ComposeSelections == UNION {[1..n -> ComposeNumbers] : n \in {1, 2, 4}}

\* A host's room, uploads of its segments and composition requests with any
\* layout and selection for one room id, which the host's room may not have.
NextCompose ==
    \/ \E c \in Conns \ joined, r \in HostJoinIds : FPJoin(c, r, TheHost, "host")
    \/ \E n \in ComposeNumbers : UploadSegment(TheRoom, TheHost, n)
    \/ ClearSegments(TheRoom)
    \/ \E l \in DOMAIN slotCount, sel \in ComposeSelections :
          ComposeBegin(TheRoom, TheHost, l, sel)
    \/ \E p \in uploads, ok \in BOOLEAN : ComposeSettled(p, ok)

SpecCompose == InitFP /\ [][NextCompose]_vars

InitV3 == InitObjects /\ mode = "v3"

\* Rotating mode, signaling only: any user joins any room in either role, each
\* connection with one 'join'.
NextV3 ==
    \/ \E c \in Conns \ joined, r \in RoomIds, u \in Users, role \in Roles :
          V3Join(c, r, u, role)
    \/ \E u \in DOMAIN v3clients : V3Leave(v3clients[u].ws, u)
    \/ \E c \in Conns : V3Disconnect(c)
    \/ \E c \in Conns : V3CloseEvent(c)

SpecV3 == InitV3 /\ [][NextV3]_vars

\* Rotating mode, one host and one guest in one room with the capture
\* countdown.
NextV3Capture ==
    \/ \E c \in Conns \ joined : V3Join(c, TheRoom, TheHost, "host")
    \/ \E c \in Conns \ joined : V3Join(c, TheRoom, TheGuest, "guest")
    \/ \E u \in DOMAIN v3clients : V3Leave(v3clients[u].ws, u)
    \/ \E c \in Conns : V3Disconnect(c)
    \/ \E c \in Conns : V3CloseEvent(c)
    \/ \E u \in DOMAIN v3clients :
          /\ v3clients[u].role = "host" /\ v3clients[u].roomId \in DOMAIN v3rooms
          /\ V3StartCapture(v3clients[u].ws, v3clients[u].roomId)
    \/ V3CountdownWake

SpecV3Capture == InitV3 /\ [][NextV3Capture]_vars

\* Rotating mode, one host with one room whose settings it changes while
\* guests come and go.
Guests == Users \ {TheHost}

NextV3Rotate ==
    \/ \E c \in Conns \ joined : V3Join(c, TheRoom, TheHost, "host")
    \/ \E c \in Conns \ joined, g \in Guests : V3Join(c, TheRoom, g, "guest")
    \/ \E u \in DOMAIN v3clients : V3Leave(v3clients[u].ws, u)
    \/ \E c \in Conns : V3Disconnect(c)
    \/ \E c \in Conns : V3CloseEvent(c)
    \/ \E u \in DOMAIN v3clients, v \in PartialSettings :
          /\ v3clients[u].role = "host"
          /\ V3HostSettingsSync(v3clients[u].ws, v3clients[u].roomId, v)
    \/ \E u \in DOMAIN v3clients, v \in SettingValues :
          /\ v3clients[u].role = "host"
          /\ V3FrameSelected(v3clients[u].ws, v3clients[u].roomId, v)

SpecV3Rotate == InitV3 /\ [][NextV3Rotate]_vars

\* V3RoomManager on its own: its methods called in any order with any
\* arguments.
NextV3Manager ==
    \/ \E r \in RoomIds : CallCreateRoom(r, TheHost)
    \/ \E r \in RoomIds, g \in Guests : CallJoinGuest(r, g)
    \/ \E r \in RoomIds, g \in Guests : CallLeaveGuest(r, g)
    \/ \E r \in RoomIds, role \in Roles : CallUpdateSessionPhoto(r, role)
    \/ \E r \in RoomIds : CallUpdateSessionMergedPhoto(r)
    \/ \E r \in RoomIds : CallCompleteSession(r)
    \/ \E r \in RoomIds : CallDestroyRoom(r)

SpecV3Manager == InitV3 /\ [][NextV3Manager]_vars

InitV3Photo == InitObjects /\ mode \in {"v3", "v3r2"}

\* Rotating mode with photo uploads: one host with one room, and a guest who
\* comes and goes (a departure is the close of the connection).
NextV3Photo ==
    \/ \E c \in Conns \ joined : V3Join(c, TheRoom, TheHost, "host")
    \/ \E c \in Conns \ joined, r \in DOMAIN v3rooms : V3Join(c, r, TheGuest, "guest")
    \/ \E c \in Conns : V3Disconnect(c)
    \/ \E c \in Conns : V3CloseEvent(c)
    \/ \E r \in RoomIds, u \in Users, role \in Roles : V3UploadBegin(r, u, role)
    \/ \E p \in v3uploads : V3UploadSaved(p)
    \/ \E m \in merges : V3MergeRun(m)
    \/ \E m \in merges, ok \in BOOLEAN : V3MergeSettled(m, ok)

SpecV3Photo == InitV3Photo /\ [][NextV3Photo]_vars

\* A setImmediate callback runs in the next turn of the event loop, and a
\* merge that has started resolves or rejects.
MergeRuns == \E m \in merges : V3MergeRun(m)
MergeSettles == \E m \in merges, ok \in BOOLEAN : V3MergeSettled(m, ok)
FairSpecV3Photo == SpecV3Photo /\ WF_vars(MergeRuns) /\ WF_vars(MergeSettles)

Scenes == {"fp", "fp-room", "fp-photo", "v3", "v3r2"}

InitBoth == InitObjects /\ mode \in Scenes

\* Either pair of manager and server with every operation that reaches the
\* manager, under each client population: joins by any user in either role,
\* leaves, disconnects, deletion timers, settings, captures and uploads.
NextBoth ==
    \/ mode = "fp" /\ NextFP
    \/ mode = "fp-room" /\ NextFPRoom
    \/ mode = "fp-photo" /\ NextPhoto
    \/ mode = "v3" /\ NextV3
    \/ /\ mode \in {"v3", "v3r2"}
       /\ \E u \in DOMAIN v3clients, v \in {DefaultSettings} :
             /\ v3clients[u].role = "host"
             /\ V3HostSettingsSync(v3clients[u].ws, v3clients[u].roomId, v)
    \/ mode = "v3r2" /\ NextV3Photo

SpecBoth == InitBoth /\ [][NextBoth]_vars

\* Both signaling servers around one room with the relay of offer, answer and
\* ice: the sender is a registered client on its own socket, the addressee
\* any user.
InitRelay == InitObjects /\ mode \in {"fp", "v3"}

NextRelay ==
    \/ /\ mode = "fp"
       /\ \E c \in Conns \ joined, r \in {TheRoom, NoRoomId}, u \in Users, role \in Roles :
             FPJoin(c, r, u, role)
    \/ mode = "fp" /\ \E u \in DOMAIN clients : FPLeave(clients[u].ws, u)
    \/ mode = "fp" /\ \E c \in Conns : FPDisconnect(c)
    \/ mode = "fp" /\ \E t \in timers : FPTimerFire(t)
    \/ /\ mode = "fp"
       /\ \E from \in DOMAIN clients, to \in Users, type \in SignalKinds :
             FPSignal(clients[from].ws, from, to, type)
    \/ /\ mode = "v3"
       /\ \E c \in Conns \ joined, u \in Users, role \in Roles :
             V3Join(c, TheRoom, u, role)
    \/ mode = "v3" /\ \E u \in DOMAIN v3clients : V3Leave(v3clients[u].ws, u)
    \/ mode = "v3" /\ \E c \in Conns : V3Disconnect(c)
    \/ mode = "v3" /\ \E c \in Conns : V3CloseEvent(c)
    \/ /\ mode = "v3"
       /\ \E from \in DOMAIN v3clients, to \in Users, type \in SignalKinds :
             V3Forward(v3clients[from].ws, from, to, type)

SpecRelay == InitRelay /\ [][NextRelay]_vars

\* The rotating-mode server around one room when the client of one connection
\* sends 'join' more than once, under the same or another user id.
Reused == {"c1"}

\* The joins of the scene: the reused connection joins as anybody, the other
\* connections once, as the host or as the guest.
ReuseJoins ==
    {j \in [c : Conns, u : Users, role : Roles] :
        \/ j.c \in Reused
        \/ /\ j.c \notin joined
           /\ <<j.u, j.role>> \in {<<TheHost, "host">>, <<TheGuest, "guest">>}}

NextReuse ==
    \/ /\ NextOrd(v3clients) <= MaxJoins
       /\ \E j \in ReuseJoins : V3Join(j.c, TheRoom, j.u, j.role)
    \/ \E c \in Conns : V3Disconnect(c)
    \/ \E c \in Conns : V3CloseEvent(c)

SpecReuse == InitV3 /\ [][NextReuse]_vars

\* =========================================================================
\* VideoComposer: frame layouts
\* =========================================================================

RECURSIVE GCD(_, _)
GCD(a, b) == IF b = 0 THEN a ELSE GCD(b, a % b)

\* A number of the layout arithmetic, as the fraction num / den in lowest
\* terms (num >= 0, den > 0).
Q(n, d) == LET g == GCD(n, d) IN [num |-> n \div g, den |-> d \div g]
QAdd(a, b) == Q(a.num * b.den + b.num * a.den, a.den * b.den)
QSub(a, b) == Q(a.num * b.den - b.num * a.den, a.den * b.den)
QTimes(a, k) == Q(a.num * k, a.den)
QOver(a, k) == Q(a.num, a.den * k)

\* Math.round: the nearest integer, a half going up.
MathRound(n) == (2 * n.num + n.den) \div (2 * n.den)

\* A variant that only rounds.
toEven_Rounds(n) == MathRound(n)

\* toEven
toEven(n) ==
    LET rounded == MathRound(n)
    IN IF rounded % 2 = 0 THEN rounded ELSE rounded - 1

\* resolvePositions
resolvePositions(rs, width, height) ==
    [i \in DOMAIN rs |->
        [x |-> MathRound(QTimes(rs[i].x, width)),
         y |-> MathRound(QTimes(rs[i].y, height)),
         width |-> toEven(QTimes(rs[i].width, width)),
         height |-> toEven(QTimes(rs[i].height, height)),
         zIndex |-> rs[i].zIndex]]

\* LAYOUT_RATIO
LayoutGap == Q(1, 80)
LayoutPadding == Q(1, 40)

\* calculateGridRatios with the default padding and gap; the slots in the
\* order the loops push them.
calculateGridRatios(cols, rows) ==
    LET availableWidth == QSub(QSub(Q(1, 1), QTimes(LayoutPadding, 2)),
                               QTimes(LayoutGap, cols - 1))
        availableHeight == QSub(QSub(Q(1, 1), QTimes(LayoutPadding, 2)),
                                QTimes(LayoutGap, rows - 1))
        cellWidth == QOver(availableWidth, cols)
        cellHeight == QOver(availableHeight, rows)
    IN [i \in 1..(rows * cols) |->
          LET row == (i - 1) \div cols
              col == (i - 1) % cols
          IN [x |-> QAdd(LayoutPadding, QTimes(QAdd(cellWidth, LayoutGap), col)),
              y |-> QAdd(LayoutPadding, QTimes(QAdd(cellHeight, LayoutGap), row)),
              width |-> cellWidth, height |-> cellHeight,
              zIndex |-> row * cols + col]]

\* calculateSingleSlotRatio with the default padding
calculateSingleSlotRatio ==
    <<[x |-> LayoutPadding, y |-> LayoutPadding,
       width |-> QSub(Q(1, 1), QTimes(LayoutPadding, 2)),
       height |-> QSub(Q(1, 1), QTimes(LayoutPadding, 2)), zIndex |-> 0]>>

\* The quoka frame's slot on its 3000 x 4500 original.
QuokaSlot(x, y, zIndex) ==
    [x |-> Q(x, 3000), y |-> Q(y, 4500), width |-> Q(1280, 3000),
     height |-> Q(1520, 4500), zIndex |-> zIndex]

\* LAYOUT_DEFINITIONS: the positionRatios of each definition.
LAYOUT_DEFINITIONS ==
    {calculateGridRatios(2, 2),
     <<QuokaSlot(153, 1068, 0), QuokaSlot(153, 2673, 1),
       QuokaSlot(1587, 307, 2), QuokaSlot(1587, 1912, 3)>>}

\* One slot at the origin with any width and height ratio k / RatioDen.
SlotRatios ==
    {<<[x |-> Q(0, 1), y |-> Q(0, 1), width |-> Q(w, RatioDen),
        height |-> Q(h, RatioDen), zIndex |-> 0]>> : w \in 0..RatioDen, h \in 0..RatioDen}

CanvasSizes == (1..MaxCanvas) \cup {VIDEO_WIDTH, VIDEO_HEIGHT}

\* resolveLayout calls resolvePositions with the definition's ratios and the
\* canvas size.
ResolveLayout ==
    /\ resolved = <<>>
    /\ resolved' = resolvePositions(ratios, canvas.width, canvas.height)
    /\ UNCHANGED <<fpVars, v3Vars, mode, connState, sent, joined, canvas, ratios>>

\* Any layout definition, also with one slot of any ratio, on any canvas.
InitLayout ==
    /\ InitServers /\ mode = "layout"
    /\ canvas \in [width : CanvasSizes, height : CanvasSizes]
    /\ ratios \in LAYOUT_DEFINITIONS \cup {calculateSingleSlotRatio} \cup SlotRatios
    /\ resolved = <<>>

NextLayout == ResolveLayout

SpecLayout == InitLayout /\ [][NextLayout]_vars

\* The timers fire: Node runs a setTimeout callback once its delay has passed.
FireRoom(r) == \E t \in timers : t.roomId = r /\ FPTimerFire(t)
FairSpecFP == SpecFP /\ \A r \in RoomIds : WF_vars(FireRoom(r))

\* =========================================================================
\* Properties
\* =========================================================================

HostBack(r) ==
    /\ rooms[r].deletionTimerId = NoTimer
    /\ rooms[r].hostId \in DOMAIN clients
    /\ clients[rooms[r].hostId].roomId = r
    /\ clients[rooms[r].hostId].role = "host"

PendingFor(r) == {t \in timers : t.roomId = r}

\* C1: a session no merge attempt of which has failed (thrown, or ended
\* without a merged photo) has had at most one merge dispatched.
C1_MergeDispatchedOnce ==
    \A r \in DOMAIN v3rooms :
        \A i \in 1..Len(v3rooms[r].completedSessions) :
            LET s == v3rooms[r].completedSessions[i] IN
            ~s.mergeFailed => s.dispatched <= 1

\* C1 witness: an upload found a session ready while its merge was in
\* flight, and that merge, the only one dispatched, has completed the session.
C1_Witness ==
    \E r \in DOMAIN v3rooms :
        \E i \in 1..Len(v3rooms[r].completedSessions) :
            LET s == v3rooms[r].completedSessions[i] IN
            /\ s.dispatched = 1 /\ s.suppressed /\ ~s.mergeFailed
            /\ s.mergedPhotoUrl /\ s.status = "completed" /\ s.frameResultUrl

\* C2: each photo slot is merged at most once and 'photos-merged' is
\* broadcast at most once, whatever uploads and re-uploads arrive.
C2_MergedOnce ==
    \A r \in DOMAIN rooms :
        /\ rooms[r].mergedEvents <= 1
        /\ \A i \in 1..Len(rooms[r].capturedPhotos) :
              rooms[r].capturedPhotos[i].merges <= 1

\* C3: when the host's connection closes and the same host rejoins the room
\* before the deadline, the guest is still attached and no peer-left was sent
\* to the guest in between.
C3_NoPeerLeftOnHostReconnect ==
    \A r \in DOMAIN rooms :
        HostBack(r) /\ rooms[r].guestId # NoUser => rooms[r].graceNotice # "close"

\* C4: rejoinRoomAsHost, called with the room's recorded host id while a
\* deletion is pending, succeeds, leaves no deletion callback pending for the
\* room (every pending callback is the one the room records, so none survives
\* the cancellation) and changes no field of the room but deletionTimerId.
C4_RejoinCancelsDeletion ==
    /\ \A t \in timers :
          t.roomId \in DOMAIN rooms /\ rooms[t.roomId].deletionTimerId = t.id
    /\ \A r \in DOMAIN rooms :
          rooms[r].deletionTimerId # NoTimer =>
            LET res == rejoinRoomAsHost(RM, r, rooms[r].hostId) IN
            /\ res.ok
            /\ \A t \in res.rm.timers : t.roomId # r
            /\ res.rm.timers \subseteq timers
            /\ DOMAIN res.rm.rooms = DOMAIN rooms
            /\ res.rm.rooms[r] = [rooms[r] EXCEPT !.deletionTimerId = NoTimer]
            /\ \A q \in DOMAIN rooms \ {r} : res.rm.rooms[q] = rooms[q]

\* C4 witness: the host left a room that had a guest, photos and settings,
\* and is back in it with the deletion cancelled.
C4_Witness ==
    \E r \in DOMAIN rooms :
        /\ HostBack(r) /\ rooms[r].graceNotice # "none"
        /\ rooms[r].guestId # NoUser
        /\ rooms[r].capturedPhotos # <<>>
        /\ rooms[r].sessionSettings # NoSettings
        /\ rooms[r].selectedPhotos.guest # <<>>

\* C5 as stated: once a deletion timer has deleted a room, getRoom returns
\* nothing for its id from then on.
C5_DeletedForGood == \A r \in expired : r \notin DOMAIN rooms

\* C5 as amended: a pending deletion leads to the room's deletion unless the
\* host rejoins; the deletion removes the room and the mapping of its guest,
\* so that getRoom finds nothing and joinRoom and rejoinRoomAsHost fail; and
\* the id stays unknown until a createRoom draws it again for a new room.
C5_Deletion ==
    /\ \A r \in RoomIds :
          (PendingFor(r) # {}) ~>
              (r \notin DOMAIN rooms \/ (PendingFor(r) = {} /\ HostBack(r)))
    /\ [][\A t \in timers :
            FPTimerFire(t) =>
              /\ t.roomId \notin DOMAIN rooms'
              /\ \A u \in Users : ~joinRoom(RM', t.roomId, u).ok
                                   /\ ~rejoinRoomAsHost(RM', t.roomId, u).ok
              /\ rooms[t.roomId].guestId \notin DOMAIN userToRoom']_vars
    /\ [][\A r \in RoomIds :
            r \notin DOMAIN rooms /\ r \in DOMAIN rooms' =>
              /\ rooms'[r] = NewRoom(rooms'[r].hostId)
              /\ \E c \in Conns, q \in RoomIds \cup {NoRoomId} :
                    FPJoin(c, q, rooms'[r].hostId, "host")]_vars

\* C5 witness: a timer has deleted a room that had a guest.
C5_Witness ==
    \E r \in expired :
        /\ r \notin DOMAIN rooms
        /\ \E u \in DOMAIN clients :
              clients[u].roomId = r /\ clients[u].role = "guest"
              /\ u \notin DOMAIN userToRoom

\* C6: a join of an identity that is registered on another connection
\* registers the new connection and closes the old one, and the close event
\* of a connection the server has closed finds no client: it changes neither
\* rooms nor clients and sends nothing.
C6_SupersededCloseIsSilent ==
    /\ \A c \in Conns :
          connState[c] = "closing" =>
             LET r == V3_handleDisconnect(SS3, [connState EXCEPT ![c] = "closed"], c)
             IN r.ss = SS3 /\ r.msgs = {}
    /\ \A u \in DOMAIN v3clients, c \in Conns \ joined, roomId \in RoomIds :
          connState[c] = "open" =>
             LET r == V3_handleJoin(SS3, connState, c, roomId, u, v3clients[u].role,
                                    nextSessionId)
             IN r.ss.clients[u].ws = c /\ r.cs[v3clients[u].ws] # "open"

\* A user's old connection was closed by its reconnecting join, the close
\* event has run, and the user is still registered, on an open connection, in
\* a room that still exists.
C6_Witness ==
    \E p \in superseded :
        /\ connState[p[1]] = "closed"
        /\ p[2] \in DOMAIN v3clients
        /\ connState[v3clients[p[2]].ws] = "open"
        /\ v3clients[p[2]].role = "host"
        /\ v3clients[p[2]].roomId \in DOMAIN v3rooms
        /\ v3rooms[v3clients[p[2]].roomId].currentGuestId # NoUser

\* C7: a connection whose guest join was rejected is no member of the room:
\* a broadcast to the room does not reach it and its disconnect notifies
\* nobody.
C7_RejectedGuestNotMember ==
    \A u \in DOMAIN v3clients :
        LET cl == v3clients[u] IN
        /\ cl.ws \in rejected /\ cl.role = "guest"
        /\ ~(cl.roomId \in DOMAIN v3rooms /\ v3rooms[cl.roomId].currentGuestId = u)
        => /\ cl.roomId \in DOMAIN v3rooms =>
                \A m \in V3_broadcastToRoom(v3clients, cl.roomId, "photos-merged-v3",
                                             cl.roomId, 0) : m.to # cl.ws
           /\ V3_handleDisconnect(SS3, [connState EXCEPT ![cl.ws] = "closed"],
                                  cl.ws).msgs = {}

\* C8: in both managers a room's hostId is the hostId it was created with,
\* and its guest field is empty or holds one identity.
C8_HostFixedOneGuest ==
    /\ \A r \in DOMAIN rooms :
          /\ rooms[r].hostId = rooms[r].createdBy
          /\ rooms[r].guestId \in Users \cup {NoUser}
    /\ \A r \in DOMAIN v3rooms :
          /\ v3rooms[r].hostId = v3rooms[r].createdBy
          /\ v3rooms[r].currentGuestId \in Users \cup {NoUser}

\* C8 witness: a rotating-mode room whose guest slot was taken, released and
\* taken again by another identity.
C8_Witness ==
    \E r \in DOMAIN v3rooms :
        /\ Len(v3rooms[r].completedSessions) = 2
        /\ v3rooms[r].completedSessions[1].guestId # v3rooms[r].completedSessions[2].guestId
        /\ v3rooms[r].currentGuestId = v3rooms[r].completedSessions[2].guestId
        /\ v3rooms[r].hostId = v3rooms[r].createdBy

\* C9: within one capture round 'all-segments-uploaded' is broadcast at most
\* once per room, and exactly once when every segment has been uploaded.
C9_AllSegmentsOnce ==
    \A r \in DOMAIN rooms :
        /\ rooms[r].allSegmentsEvents <= 1
        /\ Cardinality(rooms[r].uploadedSegments) = SegmentsRequired
              => rooms[r].allSegmentsEvents = 1

\* C10: no countdown tick and no capture-now is delivered for a room that
\* does not exist any more.
C10_NoTickAfterDestroy ==
    \A m \in sent :
        m.type \in {"countdown-tick-v3", "capture-now-v3"} => m.about \in DOMAIN v3rooms

\* C11: at most one countdown sequence is active per room at any time: a
\* second start-capture-v3 during a countdown starts no second sequence.
C11_OneCountdownPerRoom ==
    \A i \in DOMAIN countdowns, j \in DOMAIN countdowns :
        countdowns[i].roomId = countdowns[j].roomId => i = j

\* C12: once its host has left, a room stays deleted: no later join that
\* names its id, by a guest or by a host, brings a room with that id back.
\* (A room that does not exist although a guest who was admitted to it is
\* still registered is a room that a host's departure has destroyed.)
C12_DestroyedRoomStaysGone ==
    [][\A r \in RoomIds :
          (/\ r \notin DOMAIN v3rooms
           /\ \E u \in DOMAIN v3clients : /\ v3clients[u].roomId = r
                                          /\ v3clients[u].role = "guest"
                                          /\ v3clients[u].ws \notin rejected)
          => r \notin DOMAIN v3rooms']_vars

\* A settings message for room r is processed in the step.
SettingsStep(r) ==
    \/ \E c \in Conns, v \in PartialSettings : V3HostSettingsSync(c, r, v)
    \/ \E c \in Conns, v \in SettingValues : V3FrameSelected(c, r, v)

\* C13: a room's hostSettings change only when a settings message is
\* processed, so not when a guest leaves or disconnects, and a guest who is
\* attached receives in 'guest-joined-v3' the settings the room had until
\* then: those of before the last departure unless a settings message came
\* in between.
C13_DepartureKeepsSettings ==
    [][\A r \in DOMAIN v3rooms \cap DOMAIN v3rooms' :
          /\ v3rooms'[r].hostSettings # v3rooms[r].hostSettings => SettingsStep(r)
          /\ \A g \in Users :
                leaveGuest(v3rooms, r, g).rs[r].hostSettings = v3rooms[r].hostSettings
          /\ (v3rooms[r].currentGuestId = NoUser /\ v3rooms'[r].currentGuestId # NoUser)
                => LET g == v3rooms'[r].currentGuestId IN
                   \E m \in sent' : /\ m.type = "guest-joined-v3" /\ m.about = g
                                     /\ m.to = v3clients'[g].ws
                                     /\ m.hostSettings = v3rooms[r].hostSettings]_vars

\* C13 witness: a second guest has just been attached, after the first one
\* left, to a room whose settings are not the default ones, and is sent them.
C13_Witness ==
    \E r \in DOMAIN v3rooms :
        LET ss == v3rooms[r].completedSessions IN
        /\ Len(ss) = 2 /\ ss[1].guestId # ss[2].guestId
        /\ ss[2].guestId = v3rooms[r].currentGuestId
        /\ v3rooms[r].hostSettings # DefaultSettings
        /\ \E m \in sent : /\ m.type = "guest-joined-v3" /\ m.about = ss[2].guestId
                            /\ m.hostSettings = v3rooms[r].hostSettings

\* C14: joinGuest succeeds exactly when the room exists and has no attached
\* guest; on success it attaches the guest and appends one in_progress
\* session, leaving the earlier sessions and everything else as they were;
\* on failure it changes nothing.
C14_JoinGuest ==
    \A r \in RoomIds, g \in Users :
        LET j == joinGuest(v3rooms, r, g, nextSessionId)
            free == r \in DOMAIN v3rooms /\ v3rooms[r].currentGuestId = NoUser
        IN /\ j.ok <=> free
           /\ ~j.ok => j.rs = v3rooms
           /\ j.ok =>
                LET old == v3rooms[r].completedSessions
                    new == j.rs[r].completedSessions
                IN /\ DOMAIN j.rs = DOMAIN v3rooms
                   /\ \A q \in DOMAIN v3rooms \ {r} : j.rs[q] = v3rooms[q]
                   /\ j.rs[r].currentGuestId = g
                   /\ j.rs[r].hostId = v3rooms[r].hostId
                   /\ j.rs[r].hostSettings = v3rooms[r].hostSettings
                   /\ Len(new) = Len(old) + 1
                   /\ SubSeq(new, 1, Len(old)) = old
                   /\ new[Len(new)].status = "in_progress"
                   /\ new[Len(new)].guestId = g

\* C14 witness: a guest has been attached to a room that an earlier guest
\* had left: two sessions, the earlier one completed, the new one in
\* progress, and a further joinGuest would be refused.
C14_Witness ==
    \E r \in DOMAIN v3rooms :
        LET ss == v3rooms[r].completedSessions IN
        /\ Len(ss) = 2 /\ ss[1].status = "completed" /\ ss[2].status = "in_progress"
        /\ v3rooms[r].currentGuestId = ss[2].guestId
        /\ ss[1].guestId # ss[2].guestId

\* C15: isSessionReadyForMerge is true exactly when the room's current
\* session has its host photo and its guest photo and no merged photo yet.
C15_ReadyIffBothAndNotMerged ==
    \A r \in RoomIds :
        LET i == getCurrentSession(v3rooms, r) IN
        isSessionReadyForMerge(v3rooms, r) <=>
            /\ i # 0
            /\ v3rooms[r].completedSessions[i].hostPhotoUrl
            /\ v3rooms[r].completedSessions[i].guestPhotoUrl
            /\ ~v3rooms[r].completedSessions[i].mergedPhotoUrl

\* C18: leaveGuest returns false and changes nothing when guestId is not
\* the attached guest; when it is, the current session becomes completed if
\* it was in progress, the guest is detached, the room stays in the store
\* and nothing else changes.
C18_LeaveGuest ==
    \A r \in RoomIds, g \in Users :
        LET l == leaveGuest(v3rooms, r, g)
            mine == r \in DOMAIN v3rooms /\ v3rooms[r].currentGuestId = g
        IN /\ l.ok <=> mine
           /\ ~l.ok => l.rs = v3rooms
           /\ l.ok =>
                LET old == v3rooms[r].completedSessions
                    new == l.rs[r].completedSessions
                    i == getCurrentSession(v3rooms, r)
                IN /\ DOMAIN l.rs = DOMAIN v3rooms
                   /\ \A q \in DOMAIN v3rooms \ {r} : l.rs[q] = v3rooms[q]
                   /\ l.rs[r].currentGuestId = NoUser
                   /\ l.rs[r].hostId = v3rooms[r].hostId
                   /\ l.rs[r].hostSettings = v3rooms[r].hostSettings
                   /\ Len(new) = Len(old)
                   /\ \A k \in 1..Len(old) :
                         new[k] = IF k = i THEN [old[k] EXCEPT !.status = "completed"]
                                  ELSE old[k]

\* C18 witness: a guest has left in the middle of its session, which is
\* completed without a result, and the room is in the store without a guest.
C18_Witness ==
    \E r \in DOMAIN v3rooms :
        LET ss == v3rooms[r].completedSessions IN
        /\ v3rooms[r].currentGuestId = NoUser
        /\ Len(ss) >= 1
        /\ ss[Len(ss)].status = "completed" /\ ~ss[Len(ss)].frameResultUrl

\* The room has no current in-progress session: it does not exist, it has
\* no attached guest, or the attached guest's session is completed.
NoOpenSession(r) ==
    \/ r \notin DOMAIN v3rooms
    \/ v3rooms[r].currentGuestId = NoUser
    \/ LET ss == v3rooms[r].completedSessions IN
         Len(ss) >= 1 /\ ss[Len(ss)].status = "completed"

\* C19: without a current in-progress session updateSessionPhoto,
\* updateSessionMergedPhoto and completeSession report failure and leave
\* every room and session as it is.
C19_NoSessionNoChange ==
    \A r \in RoomIds :
        NoOpenSession(r) =>
            /\ \A role \in Roles :
                  LET u == updateSessionPhoto(v3rooms, r, role)
                  IN ~u.ok /\ u.rs = v3rooms
            /\ LET u == updateSessionMergedPhoto(v3rooms, r)
               IN ~u.ok /\ u.rs = v3rooms
            /\ LET c == completeSession(v3rooms, r)
               IN c.session = 0 /\ c.rs = v3rooms

\* C19 witness: the attached guest's session has been completed with a
\* result while the guest stays attached, and its photos are not all set.
C19_Witness ==
    \E r \in DOMAIN v3rooms :
        LET ss == v3rooms[r].completedSessions IN
        /\ v3rooms[r].currentGuestId # NoUser
        /\ Len(ss) >= 1 /\ ss[Len(ss)].guestId = v3rooms[r].currentGuestId
        /\ ss[Len(ss)].status = "completed" /\ ss[Len(ss)].frameResultUrl
        /\ ~ss[Len(ss)].hostPhotoUrl /\ ~ss[Len(ss)].mergedPhotoUrl

\* The room's current session has its host photo and its guest photo.
BothPhotos(rs, roomId) ==
    LET i == getCurrentSession(rs, roomId) IN
    /\ i # 0
    /\ rs[roomId].completedSessions[i].hostPhotoUrl
    /\ rs[roomId].completedSessions[i].guestPhotoUrl

\* C16: when the router dispatches a merge for a room, the room's current
\* in-progress session, the one the merge is dispatched for, has both
\* photos; and when a dispatched merge goes on to merge, the current session
\* it merges has both photos.
C16_MergeOnlyWithBothPhotos ==
    [][/\ \A m \in merges' \ merges :
             m.pc = "queued" =>
               /\ BothPhotos(v3rooms', m.roomId)
               /\ LET i == getCurrentSession(v3rooms', m.roomId)
                  IN v3rooms'[m.roomId].completedSessions[i].sessionId = m.sessionId
       /\ \A m \in merges' \ merges :
             m.pc = "merging" => BothPhotos(v3rooms, m.roomId)]_vars

\* C16 witness: the merge dispatched for a session is merging, and the
\* session, still current, has both photos.
C16_Witness ==
    \E m \in merges :
        /\ m.pc = "merging"
        /\ BothPhotos(v3rooms, m.roomId)
        /\ LET i == getCurrentSession(v3rooms, m.roomId)
           IN /\ v3rooms[m.roomId].completedSessions[i].sessionId = m.sessionId
              /\ v3rooms[m.roomId].completedSessions[i].dispatched = 1

\* The merge m ends in the step without a merged photo: mergePhotos returns
\* null, or it throws.
FailedMergeStep(m) ==
    \/ V3MergeSettled(m, FALSE)
    \/ /\ mergePhotosBegin(v3rooms, photoBuffers, m.roomId, mode) = "null"
       /\ V3MergeRun(m)

\* C17: a room that is in the merge-in-flight set eventually leaves it,
\* however its merge ends; a merge that fails leaves the room's and the
\* session's fields as they are and the room out of the set, and an upload
\* that then finds the session ready dispatches a new merge.
C17_MarkerCleared ==
    /\ \A r \in RoomIds : (r \in mergeInProgress) ~> (r \notin mergeInProgress)
    /\ [][/\ \A m \in merges :
                FailedMergeStep(m) =>
                   /\ m.roomId \notin mergeInProgress'
                   /\ v3rooms' = MarkFailed(v3rooms, m.roomId, m.sessionId)
          /\ \A p \in v3uploads :
                (/\ V3UploadSaved(p)
                 /\ p.roomId \notin mergeInProgress
                 /\ isSessionReadyForMerge(v3rooms', p.roomId))
                => \E m \in merges' \ merges : m.roomId = p.roomId /\ m.pc = "queued"]_vars

\* C17 witness: a merge of the current session failed, the session is still
\* in progress with both photos, and a later upload has dispatched a new
\* merge for it, which is in flight.
C17_Witness ==
    \E m \in merges :
        LET i == getCurrentSession(v3rooms, m.roomId) IN
        /\ BothPhotos(v3rooms, m.roomId)
        /\ v3rooms[m.roomId].completedSessions[i].sessionId = m.sessionId
        /\ v3rooms[m.roomId].completedSessions[i].mergeFailed
        /\ v3rooms[m.roomId].completedSessions[i].dispatched = 2
        /\ m.roomId \in mergeInProgress

\* C20: the id createRoom gives a new room is the id of no room in the
\* store, rooms awaiting deletion included, so every room that was there is
\* still there, unchanged, after createRoom.
C20_FreshRoomId ==
    \A id \in generateRoomId(RM), h \in Users :
        /\ id \notin DOMAIN rooms
        /\ LET after == createRoom(RM, id, h).rooms
           IN \A r \in DOMAIN rooms : r \in DOMAIN after /\ after[r] = rooms[r]

\* C20 witness: a host whose room is awaiting deletion has created another
\* room, and both are in the store.
C20_Witness ==
    \E r1 \in DOMAIN rooms, r2 \in DOMAIN rooms :
        /\ r1 # r2
        /\ rooms[r1].hostId = rooms[r2].hostId
        /\ rooms[r1].deletionTimerId # NoTimer
        /\ rooms[r2].deletionTimerId = NoTimer

\* The counts a countdown has broadcast when `count` is the next one.
Descending(count) == [j \in 1..(CountdownFrom - count) |-> CountdownFrom + 1 - j]

C22_RelayToAddresseeOnly ==
    /\ [](\A from \in Users, to \in Users, type \in SignalKinds :
            LET fp == Deliverable(connState, handleWebRTCSignal(SS, from, to, type))
                v3 == Deliverable(connState, forwardToRoom(v3clients, from, to, type))
            IN /\ \A m \in fp : /\ to \in DOMAIN clients /\ m.to = clients[to].ws
                                /\ m.type = type /\ m.about = from
               /\ (to \in DOMAIN clients /\ connState[clients[to].ws] = "open")
                     => Cardinality(fp) = 1
               /\ \A m \in v3 : /\ to \in DOMAIN v3clients /\ m.to = v3clients[to].ws
                                /\ m.type = type /\ m.about = from
               /\ (to \in DOMAIN v3clients /\ connState[v3clients[to].ws] = "open")
                     => Cardinality(v3) = 1)
    /\ [][/\ \A m \in sent' : m.type \in SignalKinds =>
                /\ sent' = {m}
                /\ UNCHANGED <<fpVars, v3Vars, connState>>
          /\ (/\ sent' = {}
              /\ \E c \in Conns :
                    \/ \E to \in Users \ DOMAIN clients : FPSignal(c, TheHost, to, "offer")
                    \/ \E to \in Users \ DOMAIN v3clients : V3Forward(c, TheHost, to, "offer"))
                => UNCHANGED <<fpVars, v3Vars, connState>>]_vars

\* Three clients are registered on the rotating-mode server and an offer of
\* one of them has reached the socket of another, and only that socket.
C22_Witness ==
    /\ mode = "v3"
    /\ Cardinality(DOMAIN v3clients) = 3
    /\ \E u \in DOMAIN v3clients :
          /\ connState[v3clients[u].ws] = "open"
          /\ \E v \in DOMAIN v3clients \ {u} :
                sent = {Msg3(v3clients[u].ws, "offer", v, 0)}

\* The open sockets registered under the current members of a room: its
\* host and its attached guest.
MemberSockets(hostId, guestId, cl) ==
    {cl[u].ws : u \in {v \in ({hostId, guestId} \ {NoUser}) \cap DOMAIN cl :
                          connState[cl[v].ws] = "open"}}

\* C23: broadcastToRoom delivers to exactly the open registered connections
\* of the room's host and attached guest, and to no connection that is not
\* a member of the room, on both servers.
C23_BroadcastToMembersOnly ==
    \A roomId \in RoomIds :
        /\ {m.to : m \in Deliverable(connState,
                            broadcastToRoom(SS, roomId, "session-settings", roomId))}
              = IF roomId \in DOMAIN rooms
                THEN MemberSockets(rooms[roomId].hostId, rooms[roomId].guestId, clients)
                ELSE {}
        /\ {m.to : m \in Deliverable(connState,
                            V3_broadcastToRoom(v3clients, roomId, "frame-selected-v3", roomId, 0))}
              \subseteq IF roomId \in DOMAIN v3rooms
                        THEN MemberSockets(v3rooms[roomId].hostId,
                                           v3rooms[roomId].currentGuestId, v3clients)
                        ELSE {}

\* C24: a connection is registered under at most one identity, also when
\* joins with different user ids arrive on it, and no registry entry points
\* at a connection that has closed.
C24_OneIdentityPerConnection ==
    /\ \A c \in Conns :
          /\ Cardinality({u \in DOMAIN clients : clients[u].ws = c}) <= 1
          /\ Cardinality({u \in DOMAIN v3clients : v3clients[u].ws = c}) <= 1
    /\ \A u \in DOMAIN clients : connState[clients[u].ws] # "closed"
    /\ \A u \in DOMAIN v3clients : connState[v3clients[u].ws] # "closed"

\* C25: an 'error' message goes only to the connection whose message caused
\* it, never to another connection, and the server leaves that connection
\* open; checked for every 'join' that can arrive on an open connection of
\* either server.
C25_ErrorsToOffenderOnly ==
    \A c \in Conns, u \in Users, role \in Roles :
        connState[c] = "open" =>
            /\ \A newId \in generateRoomId(RM) :
                  \A m \in handleJoin(SS, c, TheRoom, u, role, newId).msgs :
                      m.type = "error" => m.to = c
            /\ LET r == V3_handleJoin(SS3, connState, c, TheRoom, u, role, nextSessionId)
               IN /\ \A m \in r.msgs : m.type = "error" => m.to = c
                  /\ r.err => r.cs[c] = "open"

\* The selected numbers that have no uploaded segment, in selection order.
MissingOf(rs, roomId, sel) ==
    LET absent(n) == n \notin getUploadedSegments(rs, roomId)
    IN SelectSeq(sel, absent)

\* A rejected composition request changes neither the pending compositions
\* nor any room.
RejectionStep ==
    (\E m \in sent' : m.to = "http") => (uploads' = uploads /\ rooms' = rooms)

C27_EvenDimensions ==
    \A i \in DOMAIN resolved :
        /\ resolved[i].width \in Int /\ resolved[i].width % 2 = 0
        /\ resolved[i].height \in Int /\ resolved[i].height % 2 = 0

\* A slot has been resolved whose scaled width and height both round to odd
\* numbers.
C27_Witness ==
    \E i \in DOMAIN resolved :
        /\ MathRound(QTimes(ratios[i].width, canvas.width)) % 2 = 1
        /\ MathRound(QTimes(ratios[i].height, canvas.height)) % 2 = 1
        /\ resolved[i].width > 0

\* C28: a slot whose width (height) ratio is greater than zero gets a width
\* (height) greater than zero, on every positive canvas size.
C28_PositiveDimensions ==
    \A i \in DOMAIN resolved :
        /\ ratios[i].width.num > 0 => resolved[i].width > 0
        /\ ratios[i].height.num > 0 => resolved[i].height > 0

Abs(k) == IF k < 0 THEN -k ELSE k

\* e is the even integer nearest to v, the lower one of two equally near.
NearestEven(v, e) ==
    /\ e % 2 = 0
    /\ \A k \in {v.num \div (2 * v.den), v.num \div (2 * v.den) + 1} :
          \/ Abs(v.num - e * v.den) < Abs(v.num - 2 * k * v.den)
          \/ Abs(v.num - e * v.den) = Abs(v.num - 2 * k * v.den) /\ e <= 2 * k

\* C29: toEven(v) is the even integer nearest to v for every v >= 0, the
\* lower one when v is halfway between two even integers; checked on every
\* value resolvePositions has passed to it.
C29_ToEvenIsNearestEven ==
    \A i \in DOMAIN resolved :
        /\ NearestEven(QTimes(ratios[i].width, canvas.width), resolved[i].width)
        /\ NearestEven(QTimes(ratios[i].height, canvas.height), resolved[i].height)

\* The fixed-pair server's state without the history of how hosts left.
Program(ss) ==
    [ss EXCEPT !.rm.rooms = [r \in DOMAIN @ |-> [@[r] EXCEPT !.graceNotice = "none"]]]

\* C30: for every registered identity, the close of its connection changes
\* rooms, sessions and registry as a 'leave' message from that identity does,
\* sends the remaining peer the same notifications, and removes the identity
\* from the registry; on both servers.
C30_CloseIsLeave ==
    /\ \A u \in DOMAIN v3clients :
          LET c == v3clients[u].ws
              closed == V3_handleDisconnect(SS3, [connState EXCEPT ![c] = "closed"], c)
              left == V3_handleLeave(SS3, connState, v3clients[u].roomId, u)
          IN connState[c] # "closed" =>
                /\ closed.ss = left.ss
                /\ closed.msgs = left.msgs
                /\ u \notin DOMAIN closed.ss.clients
    /\ \A u \in DOMAIN clients :
          LET c == clients[u].ws
              mine == {v \in DOMAIN clients : clients[v].ws = c}
              left == handleLeave(SS, connState, u)
          IN connState[c] # "closed" =>
                \A v \in mine :
                   LET closed == handleLeave(SS, [connState EXCEPT ![c] = "closed"], v)
                   IN /\ Program(closed.ss) = Program(left.ss)
                      /\ closed.msgs = left.msgs
                      /\ u \notin DOMAIN closed.ss.clients

\* C31: when a merge of the rotating mode succeeds, the session it was
\* dispatched for holds the merged reference when 'photos-merged-v3' is
\* broadcast, is then completed with the merged reference as frameResultUrl,
\* and 'session-complete-v3' is broadcast only after 'photos-merged-v3' and
\* only for a session that was completed.
C31_MergeThenComplete ==
    [][\A m \in merges :
          (m.pc = "merging" /\ V3MergeSettled(m, TRUE)) =>
             /\ m.roomId \in DOMAIN v3rooms'
             /\ \E i \in DOMAIN v3rooms'[m.roomId].completedSessions :
                   LET s == v3rooms'[m.roomId].completedSessions[i]
                   IN /\ s.sessionId = m.sessionId
                      /\ s.mergedPhotoUrl /\ s.frameResultUrl
                      /\ s.status = "completed"
             /\ (\E x \in sent' : x.type = "session-complete-v3")
                   => (\E x \in sent' : x.type = "photos-merged-v3")]_vars

\* The sessions of room r in store rs, by sessionId.
SessionOf(rs, r, id) ==
    {s \in Range(rs[r].completedSessions) : s.sessionId = id}

\* C32: a merged reference or a frame result appears on a session only in
\* the step that finishes a merge dispatched for that same session, and the
\* session holds the host photo and the guest photo that were merged; a merge
\* started for one guest's session never writes into, or completes, the
\* session of a guest who joined while the merge was running.
C32_MergeWritesOwnSession ==
    [][\A r \in DOMAIN v3rooms' \cap DOMAIN v3rooms :
         \A s \in Range(v3rooms'[r].completedSessions) :
            LET before == SessionOf(v3rooms, r, s.sessionId)
                fresh == \/ s.mergedPhotoUrl /\ \A b \in before : ~b.mergedPhotoUrl
                         \/ s.frameResultUrl /\ \A b \in before : ~b.frameResultUrl
            IN fresh =>
                 /\ s.hostPhotoUrl /\ s.guestPhotoUrl
                 /\ \E m \in merges \ merges' :
                       m.roomId = r /\ m.sessionId = s.sessionId]_vars

\* Rotating mode with guest uploads: one host with one room, guests who come
\* and go, and guest photos uploaded while they do.
NextV3Upload ==
    \/ \E c \in Conns \ joined : V3Join(c, TheRoom, TheHost, "host")
    \/ \E c \in Conns \ joined, g \in Guests : V3Join(c, TheRoom, g, "guest")
    \/ \E c \in Conns : V3Disconnect(c)
    \/ \E c \in Conns : V3CloseEvent(c)
    \/ \E u \in Users : V3UploadBegin(TheRoom, u, "guest")
    \/ \E p \in v3uploads : V3UploadSaved(p)

SpecV3Upload == InitV3 /\ [][NextV3Upload]_vars

\* C34: a guest photo appears on a session only in the step that finishes an
\* upload made by that session's own guest; an upload authorised for a guest
\* who has left is not recorded on the session of the guest who joined since.
C34_GuestPhotoFromOwnGuest ==
    [][\A r \in DOMAIN v3rooms' \cap DOMAIN v3rooms :
         \A s \in Range(v3rooms'[r].completedSessions) :
            (s.guestPhotoUrl /\ \A b \in SessionOf(v3rooms, r, s.sessionId) :
                                   ~b.guestPhotoUrl)
            => \E p \in v3uploads \ v3uploads' :
                  p.roomId = r /\ p.role = "guest" /\ p.userId = s.guestId]_vars

\* C33: a room of the rotating mode is destroyed only in a step in which the
\* identity recorded as its host, registered as host of that room, leaves the
\* registry; a connection whose host join was rejected because the room has
\* another host never destroys the room by leaving or disconnecting.
C33_OnlyHostDestroysRoom ==
    [][\A r \in DOMAIN v3rooms \ DOMAIN v3rooms' :
         \E u \in DOMAIN v3clients \ DOMAIN v3clients' :
            /\ u = v3rooms[r].hostId
            /\ v3clients[u].role = "host" /\ v3clients[u].roomId = r]_vars

\* C35: the guest attached to a room of the rotating mode is registered in
\* V3SignalingServer.clients with that room as its room and the role guest.
C35_AttachedGuestIsRegistered ==
    \A r \in DOMAIN v3rooms :
       LET g == v3rooms[r].currentGuestId IN
       g # NoUser =>
          /\ g \in DOMAIN v3clients
          /\ v3clients[g].roomId = r /\ v3clients[g].role = "guest"

\* Rotating mode, one room whose settings messages come from any connection:
\* the host's, a guest's, or one that never joined.
NextV3Settings ==
    \/ \E c \in Conns \ joined : V3Join(c, TheRoom, TheHost, "host")
    \/ \E c \in Conns \ joined : V3Join(c, TheRoom, TheGuest, "guest")
    \/ \E c \in Conns : V3Disconnect(c)
    \/ \E c \in Conns : V3CloseEvent(c)
    \/ \E c \in Conns, v \in PartialSettings : V3HostSettingsSync(c, TheRoom, v)
    \/ \E c \in Conns, v \in SettingValues : V3FrameSelected(c, TheRoom, v)

SpecV3Settings == InitV3 /\ [][NextV3Settings]_vars

\* C36: the hostSettings of a room change only by a settings message that
\* came in on the connection registered as that room's host.
C36_OnlyHostChangesSettings ==
    [][\A r \in DOMAIN v3rooms \cap DOMAIN v3rooms' :
         v3rooms'[r].hostSettings # v3rooms[r].hostSettings =>
            LET h == v3rooms[r].hostId IN
            /\ Member3(v3rooms'[r].settingsFrom, h)
            /\ v3clients[h].role = "host" /\ v3clients[h].roomId = r]_vars

\* The sessions of room r that are in progress.
InProgress(rs, r) ==
    {s \in Range(rs[r].completedSessions) : s.status = "in_progress"}

\* C37: in V3RoomManager a room has at most one session in progress, that
\* session is the attached guest's, a room without a guest has none, and a
\* completed session never goes back to in progress.
C37_OneOpenSession ==
    /\ [](\A r \in DOMAIN v3rooms :
             /\ Cardinality(InProgress(v3rooms, r)) <= 1
             /\ \A s \in InProgress(v3rooms, r) :
                   v3rooms[r].currentGuestId # NoUser /\ s.guestId = v3rooms[r].currentGuestId)
    /\ [][\A r \in DOMAIN v3rooms \cap DOMAIN v3rooms' :
            \A s \in Range(v3rooms[r].completedSessions) :
               s.status = "completed" =>
                  \A t \in SessionOf(v3rooms', r, s.sessionId) : t.status = "completed"]_vars

\* A guest is attached with a session in progress after an earlier session
\* of the room was completed.
C37_Witness ==
    \E r \in DOMAIN v3rooms :
       /\ v3rooms[r].currentGuestId # NoUser
       /\ InProgress(v3rooms, r) # {}
       /\ \E s \in Range(v3rooms[r].completedSessions) : s.status = "completed"

\* C38: in a fixed-pair room capturedPhotos holds at most one record per
\* photoNumber, whatever capture-now and capture-request messages came in.
C38_OneRecordPerPhotoNumber ==
    \A r \in DOMAIN rooms :
       \A i, j \in DOMAIN rooms[r].capturedPhotos :
          rooms[r].capturedPhotos[i].photoNumber = rooms[r].capturedPhotos[j].photoNumber
             => i = j

\* Both servers with two rooms: u1 and u2 each host a room, u3 joins one of
\* them as guest, and every registered client sends offer, answer and ice to
\* any identity.
NextRelayRooms ==
    \/ /\ mode = "fp"
       /\ \E c \in Conns \ joined, u \in {"u1", "u2"} : FPJoin(c, NoRoomId, u, "host")
    \/ /\ mode = "fp"
       /\ \E c \in Conns \ joined, r \in DOMAIN rooms : FPJoin(c, r, "u3", "guest")
    \/ mode = "fp" /\ \E c \in Conns : FPDisconnect(c)
    \/ /\ mode = "fp"
       /\ \E from \in DOMAIN clients, to \in Users, type \in SignalKinds :
             FPSignal(clients[from].ws, from, to, type)
    \/ mode = "v3" /\ \E c \in Conns \ joined : V3Join(c, "r1", "u1", "host")
    \/ mode = "v3" /\ \E c \in Conns \ joined : V3Join(c, "r2", "u2", "host")
    \/ /\ mode = "v3"
       /\ \E c \in Conns \ joined, r \in DOMAIN v3rooms : V3Join(c, r, "u3", "guest")
    \/ mode = "v3" /\ \E c \in Conns : V3Disconnect(c)
    \/ /\ mode = "v3"
       /\ \E from \in DOMAIN v3clients, to \in Users, type \in SignalKinds :
             V3Forward(v3clients[from].ws, from, to, type)

SpecRelayRooms == InitRelay /\ [][NextRelayRooms]_vars

\* C39: an offer, answer or ice message reaches a connection only when the
\* sender it came from and the client registered on that connection are
\* registered for the same room, on both servers.
C39_RelayWithinRoom ==
    \A x \in sent :
       x.type \in SignalKinds =>
          LET cl == IF mode = "fp" THEN clients ELSE v3clients IN
          \A u \in DOMAIN cl :
             cl[u].ws = x.to =>
                x.about \in DOMAIN cl /\ cl[x.about].roomId = cl[u].roomId

\* userToRoom maps the host of room r to r.
HostMapped(rm, r) ==
    rm.rooms[r].hostId \in DOMAIN rm.userToRoom /\ rm.userToRoom[rm.rooms[r].hostId] = r

\* C40: in the grace-period RoomManager a live room has a pending deletion
\* timer exactly when userToRoom does not map its host to it (the host left
\* and has not rejoined), no room has two pending timers, and no timer
\* deletes a room whose host is mapped to it.
C40_TimerIffHostAway ==
    /\ [](\A r \in DOMAIN rooms :
             /\ Cardinality(PendingFor(r)) <= 1
             /\ PendingFor(r) # {} <=> ~HostMapped(RM, r))
    /\ [][\A t \in timers :
            (t.roomId \in DOMAIN rooms /\ HostMapped(RM, t.roomId)) => ~FPTimerFire(t)]_vars

====
